---- MODULE Spec2Model ----
(***************************************************************************)
(* Codebase mapper (skills/codebase-mapper/scripts): the delimiter         *)
(* balancer, the per-file extractors of the C#, Python and TypeScript      *)
(* front ends, the tree walker, the framework detector and the renderer.   *)
(*                                                                         *)
(* Offsets are Python offsets (0-based); a text is a sequence of           *)
(* characters or tokens, and At(s, i) is s[i] of the Python source.        *)
(***************************************************************************)
EXTENDS Integers, Sequences, FiniteSets, TLC

VARIABLES
    b_content,   \* balancer: the text handed to find_block_end / find_type_end
    b_start,     \* balancer: the start offset
    b_fn,        \* balancer: which function was called ("none" before the call)
    b_ret,       \* balancer: the returned offset (-1 before the call)
    x_lang,      \* extractor: the front end ("cs", "py", "ts")
    x_decl,      \* extractor: the type declaration matched in the file text
    x_ran,       \* extractor: the depth policies the declaration was parsed under
    x_type,      \* extractor: per depth policy, the TypeInfo / ClassInfo returned
    x_src,       \* extractor (ghost): per depth policy and kept member, the index
                 \* of the member declaration in the body that produced it
    w_lang,      \* run: the front end whose main() runs
    w_depth,     \* run: args.depth
    w_exclude,   \* run: args.exclude, already split on ','
    w_tree,      \* run: the paths (relative to the root) the patterns match
    w_root,      \* run: whether the root directory exists
    w_pc,        \* run: "start", "walk", "done", "failed" (exit 1), "crashed"
    w_excludes,  \* run: DEFAULT_EXCLUDES merged with the user's excludes
    w_pattern,   \* run: index of the glob pattern being enumerated
    w_pending,   \* run: the paths rglob has not yielded yet
    w_parsed,    \* run (ghost): the paths handed to the per-file extractor
    w_files,     \* run: the file models appended so far, in walk order
    w_imports,   \* run: all_imports / all_usings
    w_counts,    \* run: file_count, type_count, member_count
    w_frameworks, \* run: detect_frameworks(all_imports), once the walk is over
    w_output,    \* run: the lines of the text main() prints or writes
    d_lang,      \* detector: the front end
    d_written,   \* detector: the import identifiers as written in the files
    d_imports,   \* detector: all_imports / all_usings as main() collected them
    d_detected,  \* detector: the list detect_frameworks returned
    d_pc,        \* detector: "start", "collected", "done"
    r_lang,      \* renderer: the front end
    r_type,      \* renderer: the TypeInfo / ClassInfo handed to the formatter
    r_line,      \* renderer: the line returned, as the sequence of its pieces
    r_pc,        \* renderer: "start", "done"
    p_exists,    \* patcher: whether the document file exists
    p_doc,       \* patcher: the text of the document file, as pieces
    p_map,       \* patcher: map_content
    p_init,      \* patcher (ghost): the document before the first call
    p_prev,      \* patcher (ghost): the document before the last call
    p_first,     \* patcher (ghost): the document after the first update
    p_log,       \* patcher (ghost): the calls made, in order
    g_kind,      \* bases: "cs", "ts_class" or "ts_interface"
    g_extends,   \* bases: the base types of the `:` / `extends` clause
    g_implements, \* bases: the base types of the `implements` clause
    g_where,     \* bases: whether a `where` clause follows the C# base list
    g_bases,     \* bases: the `bases` list of the constructed type
    g_pc,        \* bases: "start", "done"
    n_lang,      \* nesting: the front end
    n_file,      \* nesting: the declarations of the file, nested as written
    n_types,     \* nesting: the types of the file model, each with the offset
                 \* of its head and the offsets of the members recorded in it
    n_pc         \* nesting: "start", "done"

balVars == <<b_content, b_start, b_fn, b_ret>>
exVars == <<x_lang, x_decl, x_ran, x_type, x_src>>

walkVars == <<w_lang, w_depth, w_exclude, w_tree, w_root, w_pc, w_excludes,
              w_pattern, w_pending, w_parsed, w_files, w_imports, w_counts,
              w_frameworks, w_output>>

detVars == <<d_lang, d_written, d_imports, d_detected, d_pc>>

renVars == <<r_lang, r_type, r_line, r_pc>>

patchVars == <<p_exists, p_doc, p_map, p_init, p_prev, p_first, p_log>>

baseVars == <<g_kind, g_extends, g_implements, g_where, g_bases, g_pc>>

nestVars == <<n_lang, n_file, n_types, n_pc>>

vars == <<balVars, exVars, walkVars, detVars, renVars, patchVars, baseVars,
          nestVars>>

\* ------------------------------------------------------------------------
\* Bounds of the model
\* ------------------------------------------------------------------------
MaxLen == 5
MaxMembers == 2
MaxFiles == 3
MaxImports == 2
MaxBases == 4
MaxMethods == 6

\* ------------------------------------------------------------------------
\* Generic helpers on sequences (Python list / str primitives)
\* ------------------------------------------------------------------------
At(s, i) == s[i + 1]

Slice(s, lo, hi) ==
    IF hi <= lo THEN <<>> ELSE [k \in 1..(hi - lo) |-> s[lo + k]]

SeqsUpTo(S, n) == UNION {[1..k -> S] : k \in 0..n}

\* ------------------------------------------------------------------------
\* Delimiter balancer
\* ------------------------------------------------------------------------
Chars == {"{", "}", "x"}

\* Mutant: the scan stops at the first closer, whatever the depth.
RECURSIVE ScanMutFirstCloser(_, _, _)
ScanMutFirstCloser(content, i, depth) ==
    IF i < Len(content)
    THEN IF At(content, i) = "{"
         THEN ScanMutFirstCloser(content, i + 1, depth + 1)
         ELSE IF At(content, i) = "}"
              THEN i
              ELSE ScanMutFirstCloser(content, i + 1, depth)
    ELSE Len(content)

\* Mutant: the scan tests the depth before it decrements it.
RECURSIVE ScanMutTestBeforeDecrement(_, _, _)
ScanMutTestBeforeDecrement(content, i, depth) ==
    IF i < Len(content)
    THEN IF At(content, i) = "{"
         THEN ScanMutTestBeforeDecrement(content, i + 1, depth + 1)
         ELSE IF At(content, i) = "}"
              THEN IF depth = 0
                   THEN i
                   ELSE ScanMutTestBeforeDecrement(content, i + 1, depth - 1)
              ELSE ScanMutTestBeforeDecrement(content, i + 1, depth)
    ELSE Len(content)

\* The while loop of find_block_end, from offset i with the running depth.
RECURSIVE ScanBlock(_, _, _)
ScanBlock(content, i, depth) ==
    IF i < Len(content)
    THEN IF At(content, i) = "{"
         THEN ScanBlock(content, i + 1, depth + 1)
         ELSE IF At(content, i) = "}"
              THEN IF depth - 1 = 0
                   THEN i
                   ELSE ScanBlock(content, i + 1, depth - 1)
              ELSE ScanBlock(content, i + 1, depth)
    ELSE Len(content)

find_block_end(content, start) == ScanBlock(content, start, 0)

\* The while loop of find_type_end (the C# front end's copy of the balancer).
RECURSIVE ScanType(_, _, _)
ScanType(content, i, depth) ==
    IF i < Len(content)
    THEN IF At(content, i) = "{"
         THEN ScanType(content, i + 1, depth + 1)
         ELSE IF At(content, i) = "}"
              THEN IF depth - 1 = 0
                   THEN i
                   ELSE ScanType(content, i + 1, depth - 1)
              ELSE ScanType(content, i + 1, depth)
    ELSE Len(content)

find_type_end(content, start) == ScanType(content, start, 0)

BalInit ==
    /\ b_content \in SeqsUpTo(Chars, MaxLen)
    /\ b_start \in 0..Len(b_content)
    /\ b_fn = "none"
    /\ b_ret = -1

CallFindBlockEnd ==
    /\ b_fn = "none"
    /\ b_fn' = "find_block_end"
    /\ b_ret' = find_block_end(b_content, b_start)
    /\ UNCHANGED <<b_content, b_start>>
    /\ UNCHANGED <<exVars, walkVars, detVars, renVars, patchVars,
                   baseVars, nestVars>>

CallFindTypeEnd ==
    /\ b_fn = "none"
    /\ b_fn' = "find_type_end"
    /\ b_ret' = find_type_end(b_content, b_start)
    /\ UNCHANGED <<b_content, b_start>>
    /\ UNCHANGED <<exVars, walkVars, detVars, renVars, patchVars,
                   baseVars, nestVars>>

BalNext == CallFindBlockEnd \/ CallFindTypeEnd

BalIdle ==
    /\ b_content = <<>>
    /\ b_start = 0
    /\ b_fn = "none"
    /\ b_ret = -1

\* ------------------------------------------------------------------------
\* Per-file extractors: the member loop of parse_type (C#), parse_class
\* (TypeScript) and parse_class (Python) under a depth policy
\* ------------------------------------------------------------------------
Depths == {"classes", "methods", "full"}

\* The name of the declared type; a C# constructor carries the same name.
TypeName == "Foo"

NoCapture == "None"
Whitespace == " "

\* Python: `sub in s` for the one-alternative strings a regex group captures.
Contains(captured, word) == captured = word

Last(s) == s[Len(s)]

Indices(s) == [i \in 1..Len(s) |-> i]

\* ---- C# -----------------------------------------------------------------
\* A member declaration of a C# type body, as written: `lead` says whether
\* whitespace (a line break and indentation) precedes it, `mods` are its
\* modifier keywords in order, `ret` says whether a return/property type is
\* written (a constructor has none), `name` is the declared name.
CsModLists == {<<>>, <<"private">>, <<"protected">>, <<"private", "async">>}

CsMethodDecls ==
    {d \in [kind : {"method"}, lead : BOOLEAN, mods : CsModLists,
            ret : BOOLEAN, name : {"Run", "get", TypeName}] :
        d.ret = (d.name # TypeName)}

CsPropertyDecls ==
    [kind : {"property"}, lead : BOOLEAN, mods : {<<>>, <<"private">>},
     ret : {TRUE}, name : {"Count"}]

CsMemberDecls == CsMethodDecls \cup CsPropertyDecls

CsTypeDecls ==
    [kind : {"class", "enum"}, name : {TypeName},
     body : SeqsUpTo(CsMemberDecls, MaxMembers)]

\* The words of the head in front of the parameter list or the accessor block.
CsHeadWords(d) == d.mods \o (IF d.ret THEN <<"T">> ELSE <<>>) \o <<d.name>>

\* METHOD_PATTERN / PROPERTY_PATTERN need a return (type) group of at least
\* one word in front of the name.  The match starts at the leftmost offset:
\* at the leading whitespace when there is some, and then the return group,
\* whose character class holds \s and \w, takes the modifiers too.
CsHeadMatches(d) == d.lead \/ Len(CsHeadWords(d)) >= 2

\* How many modifier keywords the repeated `modifiers` group consumes.
CsModifiersConsumed(d) ==
    IF d.lead THEN 0
    ELSE IF Len(d.mods) <= Len(CsHeadWords(d)) - 2
         THEN Len(d.mods)
         ELSE Len(CsHeadWords(d)) - 2

\* m.group('modifiers'): a repeated group holds its last repetition only.
CsCapturedModifiers(d) ==
    IF CsModifiersConsumed(d) = 0 THEN NoCapture
    ELSE d.mods[CsModifiersConsumed(d)]

\* m.group('modifiers') or ''
CsModifiersOrEmpty(d) ==
    IF CsCapturedModifiers(d) = NoCapture THEN "" ELSE CsCapturedModifiers(d)

\* Mutant: the visibility filter is applied under `full` instead.
CsSkipsHiddenMutFull(depth, modifiers) ==
    /\ depth = "full"
    /\ (Contains(modifiers, "private") \/ Contains(modifiers, "protected"))

\* if depth != 'full': if 'private' in modifiers or 'protected' in modifiers
CsSkipsHidden(depth, modifiers) ==
    /\ depth # "full"
    /\ (Contains(modifiers, "private") \/ Contains(modifiers, "protected"))

\* if method_name in [name, 'get', 'set', 'add', 'remove']: continue
CsSkipsStructural(typeName, methodName) ==
    methodName \in {typeName, "get", "set", "add", "remove"}

CsMethodKept(decl, i, depth) ==
    /\ decl.body[i].kind = "method"
    /\ CsHeadMatches(decl.body[i])
    /\ ~CsSkipsHidden(depth, CsModifiersOrEmpty(decl.body[i]))
    /\ ~CsSkipsStructural(decl.name, decl.body[i].name)

CsPropertyKept(decl, i, depth) ==
    /\ decl.body[i].kind = "property"
    /\ CsHeadMatches(decl.body[i])
    /\ ~CsSkipsHidden(depth, CsModifiersOrEmpty(decl.body[i]))

CsMethodInfo(d) ==
    [name |-> <<d.name, "()">>, kind |-> "method",
     is_async |-> Contains(CsModifiersOrEmpty(d), "async")]

CsPropertyInfo(d) ==
    [name |-> <<d.name>>, kind |-> "property", is_async |-> FALSE]

\* Mutant: the member loops run under `classes` as well.
CsKeptIndicesMutNoDepthGate(decl, depth) ==
    IF decl.kind # "enum"
    THEN SelectSeq(Indices(decl.body), LAMBDA i : CsMethodKept(decl, i, depth))
         \o SelectSeq(Indices(decl.body), LAMBDA i : CsPropertyKept(decl, i, depth))
    ELSE <<>>

\* The declarations parse_type keeps, in the order it appends them: the
\* methods of the body first, then its properties.
CsKeptIndices(decl, depth) ==
    IF depth # "classes" /\ decl.kind # "enum"
    THEN SelectSeq(Indices(decl.body), LAMBDA i : CsMethodKept(decl, i, depth))
         \o SelectSeq(Indices(decl.body), LAMBDA i : CsPropertyKept(decl, i, depth))
    ELSE <<>>

CsMemberInfo(d) ==
    IF d.kind = "method" THEN CsMethodInfo(d) ELSE CsPropertyInfo(d)

CsParseTypeResult(decl, depth) ==
    [name |-> decl.name, kind |-> decl.kind,
     members |-> [k \in 1..Len(CsKeptIndices(decl, depth)) |->
                     CsMemberInfo(decl.body[CsKeptIndices(decl, depth)[k]])]]

\* ---- TypeScript ---------------------------------------------------------
\* A method declaration of a TypeScript class body, as written: `mods` are
\* its modifier keywords in order, `sep` says what stands directly in front
\* of the name ("ws": whitespace; "glued": nothing, the name follows the last
\* modifier keyword or a delimiter without a space), `name` is the identifier
\* in front of the parameter list.
TsModLists == {<<>>, <<"private">>, <<"protected">>, <<"private", "async">>}

\* `accessor` is the keyword of an accessor declaration
\* (`get value() {`), "" for a method: METHOD_PATTERN matches from the
\* whitespace in front of the name, the keyword is no part of the match.
TsMemberDecls ==
    [mods : TsModLists, sep : {"ws", "glued"},
     name : {"run", "constructor", "get"}, accessor : {""}]
    \cup [mods : {<<>>}, sep : {"ws"}, name : {"value"},
          accessor : {"get", "set"}]

TsTypeDecls ==
    [kind : {"class", "interface", "enum"}, name : {TypeName},
     body : SeqsUpTo(TsMemberDecls, MaxMembers)]

\* m.group('modifier') of METHOD_PATTERN: the group (keyword | \s)* holds its
\* last repetition only, which is the whitespace in front of the name
\* whenever there is some.
TsCapturedModifier(d) ==
    IF d.sep = "ws" THEN Whitespace
    ELSE IF d.mods = <<>> THEN NoCapture ELSE Last(d.mods)

\* m.group('modifier') or ''
TsModifiersOrEmpty(d) ==
    IF TsCapturedModifier(d) = NoCapture THEN "" ELSE TsCapturedModifier(d)

\* if depth != 'full' and 'private' in modifiers: continue
TsSkipsHidden(depth, modifiers) ==
    depth # "full" /\ Contains(modifiers, "private")

TsSkippedNames ==
    {"constructor", "ngOnInit", "ngOnDestroy", "componentDidMount",
     "componentWillUnmount", "render", "get", "set"}

TsMethodKept(decl, i, depth) ==
    /\ ~TsSkipsHidden(depth, TsModifiersOrEmpty(decl.body[i]))
    /\ decl.body[i].name \notin TsSkippedNames

TsMethodInfo(d) ==
    [name |-> <<d.name, "()">>, kind |-> "method",
     is_async |-> Contains(TsModifiersOrEmpty(d), "async")]

\* The declarations the TypeScript front end keeps: parse_class runs the
\* member loop unless the policy is `classes`; parse_file builds interfaces
\* and enums with members=[].
TsKeptIndices(decl, depth) ==
    IF decl.kind = "class" /\ depth # "classes"
    THEN SelectSeq(Indices(decl.body), LAMBDA i : TsMethodKept(decl, i, depth))
    ELSE <<>>

TsParseResult(decl, depth) ==
    [name |-> decl.name, kind |-> decl.kind,
     members |-> [k \in 1..Len(TsKeptIndices(decl, depth)) |->
                     TsMethodInfo(decl.body[TsKeptIndices(decl, depth)[k]])]]

\* ---- Python -------------------------------------------------------------
\* An item of a class body in the AST: a (possibly async) function
\* definition with its decorators, or another statement.  A name is the
\* sequence of its pieces, so that startswith('_') is a prefix test.
PyNames ==
    {<<"run">>, <<"_", "helper">>, <<"_", "_", "init", "_", "_">>,
     <<"_", "_", "repr", "_", "_">>, <<"_", "_", "secret">>}

PyFunctionDefs ==
    [kind : {"def"}, name : PyNames, is_async : BOOLEAN,
     decorators : {<<>>, <<"property">>}]

PyOtherItems ==
    [kind : {"assign"}, name : {<<"x">>}, is_async : {FALSE},
     decorators : {<<>>}]

PyBodyItems == PyFunctionDefs \cup PyOtherItems

PyClassDefs ==
    [kind : {"class"}, name : {TypeName},
     body : SeqsUpTo(PyBodyItems, MaxMembers)]

\* str.startswith
StartsWith(s, prefix) ==
    /\ Len(s) >= Len(prefix)
    /\ \A k \in 1..Len(prefix) : s[k] = prefix[k]

PyInitName == <<"_", "_", "init", "_", "_">>

\* if depth != 'full' and name.startswith('_') and not name.startswith('__')
PySkipsPrivate(depth, name) ==
    /\ depth # "full"
    /\ StartsWith(name, <<"_">>)
    /\ ~StartsWith(name, <<"_", "_">>)

\* if name.startswith('__') and name != '__init__'
PySkipsDunder(name) ==
    StartsWith(name, <<"_", "_">>) /\ name # PyInitName

PyItemKept(decl, i, depth) ==
    /\ decl.body[i].kind = "def"
    /\ ~PySkipsPrivate(depth, decl.body[i].name)
    /\ ~PySkipsDunder(decl.body[i].name)

PyIsProperty(item) ==
    \E k \in 1..Len(item.decorators) : item.decorators[k] = "property"

PyKeptMethodIndices(decl, depth) ==
    IF depth # "classes"
    THEN SelectSeq(Indices(decl.body),
                   LAMBDA i : PyItemKept(decl, i, depth)
                              /\ ~PyIsProperty(decl.body[i]))
    ELSE <<>>

PyKeptPropertyIndices(decl, depth) ==
    IF depth # "classes"
    THEN SelectSeq(Indices(decl.body),
                   LAMBDA i : PyItemKept(decl, i, depth)
                              /\ PyIsProperty(decl.body[i]))
    ELSE <<>>

\* f"{prefix}{item.name}()"
PyMethodText(item) ==
    (IF item.is_async THEN <<"async ">> ELSE <<>>) \o item.name \o <<"()">>

PyParseClassResult(decl, depth) ==
    [name |-> decl.name,
     methods |-> [k \in 1..Len(PyKeptMethodIndices(decl, depth)) |->
                     PyMethodText(decl.body[PyKeptMethodIndices(decl, depth)[k]])],
     properties |-> [k \in 1..Len(PyKeptPropertyIndices(decl, depth)) |->
                     decl.body[PyKeptPropertyIndices(decl, depth)[k]].name]]

\* ---- The extractor applied to one declaration ---------------------------
Langs == {"cs", "py", "ts"}

TypeDecls(lang) ==
    IF lang = "cs" THEN CsTypeDecls
    ELSE IF lang = "ts" THEN TsTypeDecls
    ELSE PyClassDefs

NoType == [name |-> "", kind |-> "", members |-> <<>>]

ExInit ==
    /\ x_lang \in Langs
    /\ x_decl \in TypeDecls(x_lang)
    /\ x_ran = {}
    /\ x_type = [d \in Depths |-> NoType]
    /\ x_src = [d \in Depths |-> <<>>]

ExIdle ==
    /\ x_lang = "cs"
    /\ x_decl = [kind |-> "class", name |-> TypeName, body |-> <<>>]
    /\ x_ran = {}
    /\ x_type = [d \in Depths |-> NoType]
    /\ x_src = [d \in Depths |-> <<>>]

\* parse_type(match, content, depth) of the C# front end
CsParseType ==
    /\ x_lang = "cs"
    /\ \E depth \in Depths \ x_ran :
        /\ x_ran' = x_ran \cup {depth}
        /\ x_type' = [x_type EXCEPT ![depth] = CsParseTypeResult(x_decl, depth)]
        /\ x_src' = [x_src EXCEPT ![depth] = CsKeptIndices(x_decl, depth)]
    /\ UNCHANGED <<x_lang, x_decl>>
    /\ UNCHANGED <<balVars, walkVars, detVars, renVars, patchVars,
                   baseVars, nestVars>>

\* parse_class(match, content, depth) and the interface / enum branches of
\* parse_file of the TypeScript front end
TsParseClass ==
    /\ x_lang = "ts"
    /\ \E depth \in Depths \ x_ran :
        /\ x_ran' = x_ran \cup {depth}
        /\ x_type' = [x_type EXCEPT ![depth] = TsParseResult(x_decl, depth)]
        /\ x_src' = [x_src EXCEPT ![depth] = TsKeptIndices(x_decl, depth)]
    /\ UNCHANGED <<x_lang, x_decl>>
    /\ UNCHANGED <<balVars, walkVars, detVars, renVars, patchVars,
                   baseVars, nestVars>>

\* parse_class(node, depth) of the Python front end
PyParseClass ==
    /\ x_lang = "py"
    /\ \E depth \in Depths \ x_ran :
        /\ x_ran' = x_ran \cup {depth}
        /\ x_type' = [x_type EXCEPT ![depth] = PyParseClassResult(x_decl, depth)]
        /\ x_src' = [x_src EXCEPT ![depth] =
                        PyKeptMethodIndices(x_decl, depth)
                        \o PyKeptPropertyIndices(x_decl, depth)]
    /\ UNCHANGED <<x_lang, x_decl>>
    /\ UNCHANGED <<balVars, walkVars, detVars, renVars, patchVars,
                   baseVars, nestVars>>



\* ------------------------------------------------------------------------
\* Tree walker: paths and exclusion
\* ------------------------------------------------------------------------
\* A path is the sequence of its segments (Path.parts of the path relative to
\* the root, the file name last); a segment is the sequence of its pieces,
\* a leading "." and each extension being a piece of its own.
Name(n) == <<n>>
Hidden(n) == <<".", n>>

\* DEFAULT_EXCLUDES of each front end.
CsDefaultExcludes ==
    {Name("bin"), Name("obj"), Hidden("git"), Name("node_modules"),
     Name("packages"), Name("TestResults"), Hidden("vs"), Name("Debug"),
     Name("Release")}

PyDefaultExcludes ==
    {Name("__pycache__"), Hidden("git"), Name("venv"), Hidden("venv"),
     Name("env"), Hidden("env"), Name("node_modules"), Name("build"),
     Name("dist"), Hidden("tox"), Hidden("pytest_cache"),
     Hidden("mypy_cache"), Name("eggs"), <<"*", ".egg-info">>, Hidden("eggs")}

TsDefaultExcludes ==
    {Name("node_modules"), Name("dist"), Name("build"), Hidden("git"),
     Name("coverage"), Name("__tests__"), Name("__mocks__"), Hidden("next"),
     Hidden("nuxt"), Hidden("output")}

DEFAULT_EXCLUDES(lang) ==
    IF lang = "cs" THEN CsDefaultExcludes
    ELSE IF lang = "py" THEN PyDefaultExcludes
    ELSE TsDefaultExcludes

\* The glob patterns main() enumerates, in order: the last piece of the name.
Patterns(lang) ==
    IF lang = "cs" THEN <<".cs">>
    ELSE IF lang = "py" THEN <<".py">>
    ELSE <<".ts", ".tsx", ".js", ".jsx">>

FileName(path) == Last(path)

\* root.rglob('*' + ext) yields the path
MatchesPattern(path, ext) == Last(FileName(path)) = ext

\* Mutant: only the first segment of the path is tested.
should_exclude_MutFirstSegmentOnly(path, excludes) ==
    path[1] \in excludes \/ StartsWith(path[1], <<".">>)

\* should_exclude(path, excludes): the same function in the three front ends
should_exclude(path, excludes) ==
    \E i \in 1..Len(path) :
        path[i] \in excludes \/ StartsWith(path[i], <<".">>)

\* Mutant: declaration files are not recognised.
IsDeclarationFileMutNever(path) == FALSE

\* ts_file.name.endswith('.d.ts')
IsDeclarationFile(path) ==
    /\ Len(FileName(path)) >= 2
    /\ FileName(path)[Len(FileName(path)) - 1] = ".d"
    /\ Last(FileName(path)) = ".ts"

\* The files a tree may hold under the root, for the front end with main
\* extension ext: at the root and in a package, under a default-excluded
\* directory (at the top and deeper), under a hidden directory, under a
\* directory the user may exclude, under a directory whose name differs from
\* an excluded one by case only, and with a hidden file name; a second and
\* a third file of the package, the third declaring nothing; a directory
\* whose name matches the pattern (rglob yields directories too).
CommonPaths(ext) ==
    {<<<<"a", ext>>>>,
     <<<<"bad", ext>>>>,
     <<<<"dir", ext>>>>,
     <<Name("pkg"), <<"b", ext>>>>,
     <<Name("pkg"), <<"n", ext>>>>,
     <<Name("pkg"), Name("node_modules"), <<"c", ext>>>>,
     <<Name("pkg"), Hidden("cache"), <<"d", ext>>>>,
     <<Name("gen"), <<"e", ext>>>>,
     <<Name("Node_Modules"), <<"f", ext>>>>,
     <<<<".", "h", ext>>>>}

TsOnlyPaths ==
    {<<<<"types", ".d", ".ts">>>>,
     <<Name("pkg"), <<"view", ".tsx">>>>}

\* A Python file whose text does not parse.
PyOnlyPaths == {<<Name("pkg"), <<"syn", ".py">>>>}

PathCatalogue(lang) ==
    IF lang = "cs" THEN CommonPaths(".cs")
    ELSE IF lang = "py" THEN CommonPaths(".py") \cup PyOnlyPaths
    ELSE CommonPaths(".ts") \cup TsOnlyPaths

\* What --exclude may hold.
UserExcludeChoices == {{}, {Name("gen")}}

\* ------------------------------------------------------------------------
\* Framework detector
\* ------------------------------------------------------------------------
\* An import identifier is the sequence of its pieces; the separators ".",
\* "/" and "-" are pieces of their own, so that str.startswith is a prefix
\* test on pieces.
Range(s) == {s[k] : k \in 1..Len(s)}

\* FRAMEWORK_INDICATORS of each front end, in declaration order (a dict keeps
\* insertion order): <<prefix, display name>>.
CsFrameworkIndicators ==
    << <<<<"Microsoft", ".", "AspNetCore">>, "ASP.NET Core">>,
       <<<<"Microsoft", ".", "EntityFrameworkCore">>, "EF Core">>,
       <<<<"System", ".", "Text", ".", "Json">>, "System.Text.Json">>,
       <<<<"Newtonsoft", ".", "Json">>, "Newtonsoft.Json">>,
       <<<<"MediatR">>, "MediatR">>,
       <<<<"FluentValidation">>, "FluentValidation">>,
       <<<<"Serilog">>, "Serilog">>,
       <<<<"AutoMapper">>, "AutoMapper">>,
       <<<<"Dapper">>, "Dapper">>,
       <<<<"xunit">>, "xUnit">>,
       <<<<"NUnit">>, "NUnit">>,
       <<<<"Moq">>, "Moq">> >>

PyFrameworkIndicators ==
    << <<<<"fastapi">>, "FastAPI">>,
       <<<<"flask">>, "Flask">>,
       <<<<"django">>, "Django">>,
       <<<<"sqlalchemy">>, "SQLAlchemy">>,
       <<<<"pydantic">>, "Pydantic">>,
       <<<<"pytest">>, "pytest">>,
       <<<<"celery">>, "Celery">>,
       <<<<"httpx">>, "httpx">>,
       <<<<"aiohttp">>, "aiohttp">> >>

TsFrameworkIndicators ==
    << <<<<"react">>, "React">>,
       <<<<"@angular">>, "Angular">>,
       <<<<"vue">>, "Vue">>,
       <<<<"next">>, "Next.js">>,
       <<<<"express">>, "Express">>,
       <<<<"fastify">>, "Fastify">>,
       <<<<"nestjs">>, "NestJS">>,
       <<<<"@nestjs">>, "NestJS">>,
       <<<<"typeorm">>, "TypeORM">>,
       <<<<"prisma">>, "Prisma">>,
       <<<<"zod">>, "Zod">>,
       <<<<"trpc">>, "tRPC">>,
       <<<<"@trpc">>, "tRPC">> >>

FRAMEWORK_INDICATORS(lang) ==
    IF lang = "cs" THEN CsFrameworkIndicators
    ELSE IF lang = "py" THEN PyFrameworkIndicators
    ELSE TsFrameworkIndicators

\* C#: u.startswith(using)
CsHits(u, using) == StartsWith(u, using)

\* TypeScript: i == imp or i.startswith(imp + '/') or i.startswith(imp + '-')
TsHits(i, imp) ==
    \/ i = imp
    \/ StartsWith(i, imp \o <<"/">>)
    \/ StartsWith(i, imp \o <<"-">>)

\* Python: `imp in all_imports`
PyHits(i, imp) == i = imp

Hits(lang, i, imp) ==
    IF lang = "cs" THEN CsHits(i, imp)
    ELSE IF lang = "ts" THEN TsHits(i, imp)
    ELSE PyHits(i, imp)

\* Mutant: the detector appends a display name at every hit entry.
AppendDetectedMutNoDedup(lang, detected, name) == Append(detected, name)

\* if name not in detected: detected.append(name)   (C#, TypeScript)
\* detected.append(name)                            (Python)
AppendDetected(lang, detected, name) ==
    IF lang # "py" /\ name \in Range(detected)
    THEN detected
    ELSE Append(detected, name)

\* The outer loop of detect_frameworks over FRAMEWORK_INDICATORS.items(),
\* from entry k on, with the list detected so far.
RECURSIVE DetectFrom(_, _, _, _)
DetectFrom(lang, all_imports, k, detected) ==
    IF k > Len(FRAMEWORK_INDICATORS(lang)) THEN detected
    ELSE DetectFrom(lang, all_imports, k + 1,
            IF \E i \in all_imports :
                   Hits(lang, i, FRAMEWORK_INDICATORS(lang)[k][1])
            THEN AppendDetected(lang, detected,
                                FRAMEWORK_INDICATORS(lang)[k][2])
            ELSE detected)

detect_frameworks(lang, all_imports) == DetectFrom(lang, all_imports, 1, <<>>)

\* ------------------------------------------------------------------------
\* The detector on its own: main() collects the identifiers of the files
\* into all_imports / all_usings, then calls detect_frameworks
\* ------------------------------------------------------------------------
\* Identifiers a source file can hold: equal to a prefix, a prefix followed
\* by a separator, a prefix followed by other characters, a prefix that is
\* not at the start, and identifiers of no framework.
CsIdentifiers ==
    { <<"Serilog">>, <<"Serilog", ".", "Sinks">>, <<"Serilog", "ger">>,
      <<"Microsoft", ".", "AspNetCore", ".", "Mvc">>,
      <<"Microsoft", ".", "AspNetCore">>,
      <<"My", ".", "Serilog">>, <<"System">>, <<"Moq">> }

PyIdentifiers ==
    { <<"fastapi">>, <<"pydantic", ".", "main">>, <<"pydantic", "x">>,
      <<"flask">>, <<"my", ".", "flask">>, <<"os", ".", "path">>,
      <<"pytest">>, <<"django", ".", "db">> }

TsIdentifiers ==
    { <<"react">>, <<"react", "/", "jsx">>, <<"react", "-", "dom">>,
      <<"react", "ive">>, <<"@nestjs", "/", "core">>, <<"nestjs">>,
      <<"zod", "iac">>, <<".", "/", "react">> }

Identifiers(lang) ==
    IF lang = "cs" THEN CsIdentifiers
    ELSE IF lang = "py" THEN PyIdentifiers
    ELSE TsIdentifiers

\* alias.name.split('.')[0]
RECURSIVE FirstSegment(_)
FirstSegment(id) ==
    IF id = <<>> \/ Head(id) = "." THEN <<>>
    ELSE <<Head(id)>> \o FirstSegment(Tail(id))

\* What parse_file / parse_module put in the file model for an identifier:
\* Python keeps the first dotted segment, the others the identifier.
CollectedImport(lang, id) == IF lang = "py" THEN FirstSegment(id) ELSE id

DetInit ==
    /\ d_lang \in Langs
    /\ d_written \in {ids \in SUBSET Identifiers(d_lang) :
                         Cardinality(ids) <= MaxImports}
    /\ d_imports = {}
    /\ d_detected = <<>>
    /\ d_pc = "start"

DetIdle ==
    /\ d_lang = "cs"
    /\ d_written = {}
    /\ d_imports = {}
    /\ d_detected = <<>>
    /\ d_pc = "idle"

\* all_imports.update(module.imports) over the files
CollectImports ==
    /\ d_pc = "start"
    /\ d_imports' = {CollectedImport(d_lang, id) : id \in d_written}
    /\ d_pc' = "collected"
    /\ UNCHANGED <<d_lang, d_written, d_detected>>
    /\ UNCHANGED <<balVars, exVars, walkVars, renVars, patchVars,
                   baseVars, nestVars>>

\* frameworks = detect_frameworks(all_imports)
DetectFrameworks ==
    /\ d_pc = "collected"
    /\ d_detected' = detect_frameworks(d_lang, d_imports)
    /\ d_pc' = "done"
    /\ UNCHANGED <<d_lang, d_written, d_imports>>
    /\ UNCHANGED <<balVars, exVars, walkVars, renVars, patchVars,
                   baseVars, nestVars>>

\* ------------------------------------------------------------------------
\* Renderer: format_type (C#, TypeScript), format_class (Python)
\* ------------------------------------------------------------------------
\* A rendered line is the sequence of the pieces the f-strings and joins put
\* together; a name is one piece.
CsBasesShown == 3
CsMethodsShown == 5
TsBasesShown == 2
TsDecoratorsShown == 2
TsMethodsShown == 4
PyMethodsShown == 5

\* The backquote character and the arrow glyph followed by a space, which
\* the pieces below cannot hold literally.
Tick == "<backquote>"
Arrow == "<arrow> "

\* s[:n]
Prefix(s, n) == IF Len(s) <= n THEN s ELSE SubSeq(s, 1, n)

\* sep.join(items), the items being names
RECURSIVE Join(_, _)
Join(items, sep) ==
    IF items = <<>> THEN <<>>
    ELSE IF Len(items) = 1 THEN <<items[1]>>
    ELSE <<items[1], sep>> \o Join(Tail(items), sep)

\* ' '.join(parts), the parts being pieces already put together
RECURSIVE JoinParts(_)
JoinParts(parts) ==
    IF parts = <<>> THEN <<>>
    ELSE IF Len(parts) = 1 THEN parts[1]
    ELSE parts[1] \o <<" ">> \o JoinParts(Tail(parts))

\* Mutant: the inheritance clause of the C# front end without its overflow
\* count.
CsFormatBasesMutNoOverflow(bases) ==
    IF bases # <<>>
    THEN <<" : ">> \o Join(Prefix(bases, CsBasesShown), ", ")
    ELSE <<>>

\* C#: parts[0] += f" : {', '.join(t.bases[:3])}", then f' (+{n - 3})'
CsFormatBases(bases) ==
    IF bases # <<>>
    THEN <<" : ">> \o Join(Prefix(bases, CsBasesShown), ", ")
         \o (IF Len(bases) > CsBasesShown
             THEN <<" (+", ToString(Len(bases) - CsBasesShown), ")">>
             ELSE <<>>)
    ELSE <<>>

\* TypeScript: bases_str = ', '.join(t.bases[:2]), then f' (+{n - 2})';
\* the part is f": {bases_str}"
TsFormatBases(bases) ==
    <<": ">> \o Join(Prefix(bases, TsBasesShown), ", ")
    \o (IF Len(bases) > TsBasesShown
        THEN <<" (+", ToString(Len(bases) - TsBasesShown), ")">>
        ELSE <<>>)

\* Python: parts[0] += f"({', '.join(cls.bases)})"
PyFormatBases(bases) ==
    IF bases # <<>> THEN <<"(">> \o Join(bases, ", ") \o <<")">> ELSE <<>>

CsImportantAttrs ==
    {"ApiController", "Authorize", "Route", "Injectable", "Component"}

\* Mutant: every member is listed, properties too.
MethodNamesMutAllMembers(members) ==
    [k \in 1..Len(members) |-> members[k].name]

\* [m.name for m in t.members if m.kind == 'method']
MethodNames(members) ==
    LET ms == SelectSeq(members, LAMBDA m : m.kind = "method")
    IN  [k \in 1..Len(ms) |-> ms[k].name]

CsFormatType(t) ==
    LET head == <<Tick, t.name>> \o CsFormatBases(t.bases) \o <<Tick>>
        kind == IF t.kind # "class" THEN <<<<"[", t.kind, "]">>>> ELSE <<>>
        shown_attrs == SelectSeq(t.attributes,
                                 LAMBDA a : a \in CsImportantAttrs)
        attrs == IF shown_attrs # <<>>
                 THEN <<<<"[">> \o Join(shown_attrs, ", ") \o <<"]">>>>
                 ELSE <<>>
        methods == MethodNames(t.members)
        shown == Join(Prefix(methods, CsMethodsShown), ", ")
                 \o (IF Len(methods) > CsMethodsShown
                     THEN <<" (+", ToString(Len(methods) - CsMethodsShown),
                            " more)">>
                     ELSE <<>>)
        meths == IF methods # <<>> THEN <<<<Arrow>> \o shown>> ELSE <<>>
    IN  JoinParts(<<head>> \o kind \o attrs \o meths)

TsFormatType(t) ==
    LET head == <<Tick, t.name, Tick>>
        kind == IF t.kind \notin {"class", "function"}
                THEN <<<<"(", t.kind, ")">>>> ELSE <<>>
        bases == IF t.bases # <<>> THEN <<TsFormatBases(t.bases)>> ELSE <<>>
        decos == IF t.decorators # <<>>
                 THEN <<<<"[@">>
                        \o Join(Prefix(t.decorators, TsDecoratorsShown), ", ")
                        \o <<"]">>>>
                 ELSE <<>>
        methods == MethodNames(t.members)
        shown == Join(Prefix(methods, TsMethodsShown), ", ")
                 \o (IF Len(methods) > TsMethodsShown
                     THEN <<" (+", ToString(Len(methods) - TsMethodsShown),
                            ")">>
                     ELSE <<>>)
        meths == IF t.members # <<>> /\ methods # <<>>
                 THEN <<<<Arrow>> \o shown>> ELSE <<>>
    IN  JoinParts(<<head>> \o kind \o bases \o decos \o meths)

PyFormatClass(cls) ==
    LET head == <<Tick, cls.name>> \o PyFormatBases(cls.bases) \o <<Tick>>
        data == IF cls.is_dataclass THEN <<<<"[dataclass]">>>> ELSE <<>>
        meths == IF cls.methods # <<>>
                 THEN <<<<Arrow>>
                        \o Join(Prefix(cls.methods, PyMethodsShown), ", ")>>
                      \o (IF Len(cls.methods) > PyMethodsShown
                          THEN <<<<"(+",
                                   ToString(Len(cls.methods) - PyMethodsShown),
                                   " more)">>>>
                          ELSE <<>>)
                 ELSE <<>>
    IN  JoinParts(<<head>> \o data \o meths)

\* The types handed to the formatter: bases in written order, possibly
\* repeated; a property in front of the methods or not.
BaseNames == {"IA", "IB"}

MethodName(k) == "m" \o ToString(k) \o "()"

RenderMembers(n, withProperty) ==
    (IF withProperty THEN <<[name |-> "P", kind |-> "property"]>> ELSE <<>>)
    \o [k \in 1..n |-> [name |-> MethodName(k), kind |-> "method"]]

CsRenderTypes ==
    {[name |-> TypeName, kind |-> kind, bases |-> bases,
      members |-> RenderMembers(n, p), attributes |-> attrs] :
        kind \in {"class", "interface"},
        bases \in SeqsUpTo(BaseNames, MaxBases),
        n \in 0..MaxMethods, p \in BOOLEAN,
        attrs \in {<<>>, <<"Serializable", "ApiController">>}}

TsRenderTypes ==
    {[name |-> TypeName, kind |-> kind, bases |-> bases,
      members |-> RenderMembers(n, p), decorators |-> decos] :
        kind \in {"class", "interface"},
        bases \in SeqsUpTo(BaseNames, MaxBases),
        n \in 0..MaxMethods, p \in BOOLEAN,
        decos \in {<<>>, <<"Component", "Input", "Output">>}}

PyRenderTypes ==
    {[name |-> TypeName, bases |-> bases,
      methods |-> [k \in 1..n |-> MethodName(k)], is_dataclass |-> dc] :
        bases \in SeqsUpTo(BaseNames, MaxBases),
        n \in 0..MaxMethods, dc \in BOOLEAN}

RenderTypes(lang) ==
    IF lang = "cs" THEN CsRenderTypes
    ELSE IF lang = "ts" THEN TsRenderTypes
    ELSE PyRenderTypes

RenInit ==
    /\ r_lang \in Langs
    /\ r_type \in RenderTypes(r_lang)
    /\ r_line = <<>>
    /\ r_pc = "start"

RenIdle ==
    /\ r_lang = "cs"
    /\ r_type = NoType
    /\ r_line = <<>>
    /\ r_pc = "idle"

CallCsFormatType ==
    /\ r_pc = "start"
    /\ r_lang = "cs"
    /\ r_line' = CsFormatType(r_type)
    /\ r_pc' = "done"
    /\ UNCHANGED <<r_lang, r_type>>
    /\ UNCHANGED <<balVars, exVars, walkVars, detVars, patchVars,
                   baseVars, nestVars>>

CallTsFormatType ==
    /\ r_pc = "start"
    /\ r_lang = "ts"
    /\ r_line' = TsFormatType(r_type)
    /\ r_pc' = "done"
    /\ UNCHANGED <<r_lang, r_type>>
    /\ UNCHANGED <<balVars, exVars, walkVars, detVars, patchVars,
                   baseVars, nestVars>>

CallPyFormatClass ==
    /\ r_pc = "start"
    /\ r_lang = "py"
    /\ r_line' = PyFormatClass(r_type)
    /\ r_pc' = "done"
    /\ UNCHANGED <<r_lang, r_type>>
    /\ UNCHANGED <<balVars, exVars, walkVars, detVars, patchVars,
                   baseVars, nestVars>>

\* ------------------------------------------------------------------------
\* Tree walker: the files of the tree, the per-file extractor, main()
\* ------------------------------------------------------------------------
\* The part of the file name that tells the catalogue's files apart.
Stem(path) ==
    IF FileName(path)[1] = "." THEN FileName(path)[2] ELSE FileName(path)[1]

CsClass(body) == [kind |-> "class", name |-> TypeName, body |-> body]
CsMethod(lead, mods, name) ==
    [kind |-> "method", lead |-> lead, mods |-> mods, ret |-> TRUE,
     name |-> name]

TsClass(body) == [kind |-> "class", name |-> TypeName, body |-> body]
TsMethod(mods, sep, name) ==
    [mods |-> mods, sep |-> sep, name |-> name, accessor |-> ""]

PyClass(body) == [kind |-> "class", name |-> TypeName, body |-> body]
PyDef(name) ==
    [kind |-> "def", name |-> name, is_async |-> FALSE, decorators |-> <<>>]

\* The type declarations the text of each catalogue file holds.
SourceTypes(lang, stem) ==
    IF stem \in {"a", "types"}
    THEN IF lang = "cs"
         THEN <<CsClass(<<CsMethod(TRUE, <<>>, "Run"),
                          CsMethod(FALSE, <<"private">>, "Run")>>)>>
         ELSE IF lang = "ts"
         THEN <<TsClass(<<TsMethod(<<>>, "ws", "run"),
                          TsMethod(<<"private">>, "glued", "run")>>)>>
         ELSE <<PyClass(<<PyDef(<<"run">>), PyDef(<<"_", "helper">>)>>)>>
    ELSE IF stem \in {"c", "e", "bad", "view"}
    THEN IF lang = "cs" THEN <<CsClass(<<CsMethod(TRUE, <<>>, "Run")>>)>>
         ELSE IF lang = "ts" THEN <<TsClass(<<TsMethod(<<>>, "ws", "run")>>)>>
         ELSE <<PyClass(<<PyDef(<<"run">>)>>)>>
    ELSE IF stem = "b"
    THEN IF lang = "cs" THEN <<CsClass(<<>>), CsClass(<<>>)>>
         ELSE IF lang = "ts" THEN <<TsClass(<<>>), TsClass(<<>>)>>
         ELSE <<PyClass(<<>>), PyClass(<<>>)>>
    ELSE <<>>

\* The import / using identifiers the text of each catalogue file holds, as
\* written.
SourceImports(lang, stem) ==
    IF lang = "cs"
    THEN CASE stem = "a" -> <<<<"Microsoft", ".", "AspNetCore", ".", "Mvc">>,
                              <<"System">>>>
           [] stem = "b" -> <<<<"Serilog">>, <<"Serilog", ".", "Sinks">>>>
           [] stem = "c" -> <<<<"Dapper">>>>
           [] stem = "d" -> <<<<"Moq">>>>
           [] stem = "e" -> <<<<"xunit">>>>
           [] stem = "f" -> <<<<"NUnit", ".", "Framework">>>>
           [] stem = "h" -> <<<<"MediatR">>>>
           [] OTHER -> <<>>
    ELSE IF lang = "py"
    THEN CASE stem = "a" -> <<<<"fastapi">>, <<"os", ".", "path">>>>
           [] stem = "b" -> <<<<"pydantic", ".", "main">>, <<"pydantic">>>>
           [] stem = "c" -> <<<<"django">>>>
           [] stem = "d" -> <<<<"flask">>>>
           [] stem = "e" -> <<<<"celery">>>>
           [] stem = "f" -> <<<<"httpx">>>>
           [] stem = "h" -> <<<<"pytest">>>>
           [] OTHER -> <<>>
    ELSE CASE stem = "a" -> <<<<"react">>, <<".", "/", "util">>>>
           [] stem = "b" -> <<<<"@nestjs", "/", "core">>, <<"nestjs">>>>
           [] stem = "c" -> <<<<"vue">>>>
           [] stem = "d" -> <<<<"express">>>>
           [] stem = "e" -> <<<<"zod">>>>
           [] stem = "f" -> <<<<"prisma">>>>
           [] stem = "h" -> <<<<"typeorm">>>>
           [] stem = "types" -> <<<<"next">>>>
           [] stem = "view" -> <<<<"react", "-", "dom">>>>
           [] OTHER -> <<>>

\* Whether the bytes of the file decode as UTF-8.
DecodesAsUtf8(stem) == stem # "bad"

ParseTypeResult(lang, decl, depth) ==
    IF lang = "cs" THEN CsParseTypeResult(decl, depth)
    ELSE IF lang = "ts" THEN TsParseResult(decl, depth)
    ELSE PyParseClassResult(decl, depth)

\* Whether ast.parse accepts the text (Python).
ParsesAsPython(stem) == stem # "syn"

\* filepath.read_text raises an OSError: the path is a directory.
ReadRaises(path) == Stem(path) = "dir"

\* The namespace the text of a C# catalogue file declares ("" when none).
SourceNamespace(stem) ==
    CASE stem = "a" -> "App"
      [] stem = "b" -> "App.Core"
      [] stem = "f" -> "Gen"
      [] OTHER -> ""

\* The top-level functions the text of a Python catalogue file defines.
SourceFunctions(stem) ==
    CASE stem = "e" -> <<PyDef(<<"top">>), PyDef(<<"_", "hidden">>)>>
      [] stem = "n" -> <<PyDef(<<"top">>)>>
      [] OTHER -> <<>>

\* Whether the k-th declaration of a TypeScript catalogue file is written
\* with `export`.
SourceExported(stem, k) ==
    CASE stem = "e" -> FALSE
      [] stem = "b" -> k = 1
      [] OTHER -> TRUE

\* parse_module: the top-level functions kept under the depth policy
PyModuleFunctions(stem, depth) ==
    LET kept == SelectSeq(SourceFunctions(stem),
                          LAMBDA f : /\ depth # "classes"
                                     /\ (~StartsWith(f.name, <<"_">>)
                                         \/ depth = "full"))
    IN  [k \in 1..Len(kept) |-> PyMethodText(kept[k])]

\* The model parse_file / parse_module builds from a readable file.
FileModel(lang, path, depth) ==
    [path |-> path,
     namespace |-> IF lang = "cs" THEN SourceNamespace(Stem(path)) ELSE "",
     functions |-> IF lang = "py" THEN PyModuleFunctions(Stem(path), depth)
                   ELSE <<>>,
     exported |-> [k \in 1..Len(SourceTypes(lang, Stem(path))) |->
                      IF lang = "ts" THEN SourceExported(Stem(path), k)
                      ELSE TRUE],
     types |-> [k \in 1..Len(SourceTypes(lang, Stem(path))) |->
                   ParseTypeResult(lang, SourceTypes(lang, Stem(path))[k], depth)],
     imports |-> IF lang = "py"
                 THEN {FirstSegment(id) :
                          id \in Range(SourceImports(lang, Stem(path)))}
                 ELSE Range(SourceImports(lang, Stem(path)))]

\* Mutant: the extractor never signals Skip.
ParseSkipsMutNever(lang, path) == FALSE

\* parse_file / parse_module return None: the text does not decode (Python,
\* TypeScript) or does not parse (Python); the C# front end reads the file
\* again as latin-1.
ParseSkips(lang, path) ==
    \/ lang # "cs" /\ ~DecodesAsUtf8(Stem(path))
    \/ lang = "py" /\ ~ParsesAsPython(Stem(path))

\* len(t.members) summed over the types of a file (C#), len(cls.methods)
\* (Python); the TypeScript main() keeps no member count.
RECURSIVE MemberCount(_, _)
MemberCount(lang, types) ==
    IF types = <<>> \/ lang = "ts" THEN 0
    ELSE (IF lang = "py" THEN Len(Head(types).methods)
          ELSE Len(Head(types).members))
         + MemberCount(lang, Tail(types))

\* ------------------------------------------------------------------------
\* Renderer: format_output, and the statistics comment main() appends
\* ------------------------------------------------------------------------
\* The text is the sequence of its lines, a line the sequence of its pieces.
PyFunctionsShown == 5

\* The pieces of a name put together as one string.
RECURSIVE Text(_)
Text(pieces) == IF pieces = <<>> THEN "" ELSE Head(pieces) \o Text(Tail(pieces))

\* str(rel_path.parent), '' for a file at the root
RECURSIVE DirName(_)
DirName(path) ==
    IF Len(path) <= 1 THEN ""
    ELSE IF Len(path) = 2 THEN Text(path[1])
    ELSE Text(path[1]) \o "/" \o DirName(Tail(path))

\* The key format_output groups a file under: the namespace (C#), the
\* directory relative to the root (Python, TypeScript).
GroupKey(lang, f) ==
    IF lang = "cs"
    THEN (IF f.namespace = "" THEN "(no namespace)" ELSE f.namespace)
    ELSE DirName(f.path)

\* The group keys of the catalogue in ascending order of Python's str `<`.
GroupKeysAscending(lang) ==
    IF lang = "cs" THEN <<"(no namespace)", "App", "App.Core", "Gen">>
    ELSE <<"", "Node_Modules", "gen", "pkg", "pkg/.cache",
           "pkg/node_modules">>

\* The paths of the catalogue in ascending order of Python's str `<` on
\* str(filepath), which begins with the same root for all of them.
PathsAscending(lang) ==
    LET ext == Patterns(lang)[1]
    IN  << <<<<".", "h", ext>>>>,
           <<Name("Node_Modules"), <<"f", ext>>>>,
           <<<<"a", ext>>>>,
           <<<<"bad", ext>>>>,
           <<<<"dir", ext>>>>,
           <<Name("gen"), <<"e", ext>>>>,
           <<Name("pkg"), Hidden("cache"), <<"d", ext>>>>,
           <<Name("pkg"), <<"b", ext>>>>,
           <<Name("pkg"), <<"n", ext>>>>,
           <<Name("pkg"), Name("node_modules"), <<"c", ext>>>>,
           <<Name("pkg"), <<"syn", ".py">>>>,
           <<Name("pkg"), <<"view", ".tsx">>>>,
           <<<<"types", ".d", ".ts">>>> >>

\* Mutant: the files of a group are rendered in the order they were walked.
SortedByPathMutWalkOrder(lang, files) == files

\* sorted(files, key=lambda x: x.path)
SortedByPath(lang, files) ==
    LET paths == SelectSeq(PathsAscending(lang),
                           LAMBDA p : \E k \in 1..Len(files) : files[k].path = p)
    IN  [k \in 1..Len(paths) |->
            files[CHOOSE j \in 1..Len(files) : files[j].path = paths[k]]]

\* modules.items(): the Python main() keeps the modules in a dict keyed by
\* the parent directory, so format_output meets them parent by parent, the
\* parents in the order of their first file.
PyModuleItems(files) ==
    LET firsts == SelectSeq([k \in 1..Len(files) |-> k],
                     LAMBDA k : \A j \in 1..(k - 1) :
                         DirName(files[j].path) # DirName(files[k].path))
        RECURSIVE From(_)
        From(i) == IF i > Len(firsts) THEN <<>>
                   ELSE SelectSeq(files,
                            LAMBDA f : DirName(f.path)
                                       = DirName(files[firsts[i]].path))
                        \o From(i + 1)
    IN  From(1)

\* The TypeInfo / ClassInfo of a type of a catalogue file: the catalogue's
\* declarations carry no bases, attributes or decorators.
TypeInfoOf(lang, t) ==
    IF lang = "py"
    THEN [name |-> t.name, bases |-> <<>>,
          methods |-> [k \in 1..Len(t.methods) |-> Text(t.methods[k])],
          is_dataclass |-> FALSE]
    ELSE [name |-> t.name, kind |-> t.kind, bases |-> <<>>,
          members |-> [k \in 1..Len(t.members) |->
                          [name |-> Text(t.members[k].name),
                           kind |-> t.members[k].kind]],
          attributes |-> <<>>, decorators |-> <<>>]

FormatType(lang, t) ==
    IF lang = "cs" THEN CsFormatType(TypeInfoOf(lang, t))
    ELSE IF lang = "ts" THEN TsFormatType(TypeInfoOf(lang, t))
    ELSE PyFormatClass(TypeInfoOf(lang, t))

\* The lines format_output emits for one file of a group.
FileLines(lang, f, indent) ==
    LET filename == Text(FileName(f.path))
        typeLines(ks, lead) ==
            [k \in 1..Len(ks) |-> lead \o FormatType(lang, f.types[ks[k]])]
        all == [k \in 1..Len(f.types) |-> k]
        exported == SelectSeq(all, LAMBDA k : f.exported[k])
        header == <<indent, "- ", Tick, filename, Tick, ":">>
        funcs == IF f.functions = <<>> THEN <<>>
                 ELSE << <<indent, "  - Functions: ">>
                         \o Join([k \in 1..Len(Prefix(f.functions,
                                                      PyFunctionsShown)) |->
                                     Text(f.functions[k])], ", ")
                         \o (IF Len(f.functions) > PyFunctionsShown
                             THEN <<" (+",
                                    ToString(Len(f.functions)
                                             - PyFunctionsShown), " more)">>
                             ELSE <<>>) >>
    IN  IF lang = "cs"
        THEN typeLines(all, <<"  - ", Tick, filename, Tick, ": ">>)
        ELSE IF lang = "ts"
        THEN IF \/ filename \in {"index.ts", "index.tsx", "index.js"}
                    /\ f.types = <<>>
                \/ exported = <<>>
             THEN <<>>
             ELSE <<header>> \o typeLines(exported, <<indent, "  - ">>)
        ELSE IF \/ filename = "__init__.py" /\ f.types = <<>>
                                            /\ f.functions = <<>>
                \/ f.types = <<>> /\ f.functions = <<>>
             THEN <<>>
             ELSE <<header>> \o typeLines(all, <<indent, "  - ">>) \o funcs

\* The line format_output emits for a group, ahead of the group's files.
GroupLines(lang, key) ==
    IF lang = "cs" THEN << <<"- ", Tick, key, Tick>> >>
    ELSE IF key # "" THEN << <<"- ", Tick, key, "/", Tick>> >>
    ELSE <<>>

\* Mutant: the frameworks line and the empty line are always emitted.
HeaderLinesMutAlwaysFrameworks(lang, frameworks) ==
    << <<(IF lang = "cs" THEN "### C#: "
          ELSE IF lang = "py" THEN "### Python: "
          ELSE "### TypeScript: "), "root", "/">>,
       <<"**Frameworks detected:** ">> \o Join(frameworks, ", "),
       <<>> >>

\* The title line and, with frameworks, their line and an empty line.
HeaderLines(lang, frameworks) ==
    << <<(IF lang = "cs" THEN "### C#: "
          ELSE IF lang = "py" THEN "### Python: "
          ELSE "### TypeScript: "), "root", "/">> >>
    \o (IF frameworks # <<>>
        THEN << <<"**Frameworks detected:** ">> \o Join(frameworks, ", "),
                <<>> >>
        ELSE <<>>)

RECURSIVE FlattenLines(_)
FlattenLines(blocks) ==
    IF blocks = <<>> THEN <<>>
    ELSE Head(blocks) \o FlattenLines(Tail(blocks))

\* format_output(files, root, frameworks)
format_output(lang, files, frameworks) ==
    LET items == IF lang = "py" THEN PyModuleItems(files) ELSE files
        keys == SelectSeq(GroupKeysAscending(lang),
                    LAMBDA key : \E k \in 1..Len(items) :
                                     GroupKey(lang, items[k]) = key)
        group(key) == SortedByPath(lang,
                          SelectSeq(items,
                                    LAMBDA f : GroupKey(lang, f) = key))
        indent(key) == IF lang # "cs" /\ key # "" THEN "  " ELSE ""
        groupBlock(key) ==
            GroupLines(lang, key)
            \o FlattenLines([k \in 1..Len(group(key)) |->
                                FileLines(lang, group(key)[k], indent(key))])
    IN  HeaderLines(lang, frameworks)
        \o FlattenLines([k \in 1..Len(keys) |-> groupBlock(keys[k])])

\* stats = f"\n<!-- ...: {file_count} files, ... -->\n"
StatsLine(lang, counts) ==
    IF lang = "cs"
    THEN <<"<!-- C#: ", ToString(counts.files), " files, ",
           ToString(counts.types), " types, ", ToString(counts.members),
           " members -->">>
    ELSE IF lang = "py"
    THEN <<"<!-- Python: ", ToString(counts.files), " files, ",
           ToString(counts.types), " classes, ", ToString(counts.members),
           " methods -->">>
    ELSE <<"<!-- TypeScript: ", ToString(counts.files), " files, ",
           ToString(counts.types), " exports -->">>

Trees(lang) ==
    {t \in SUBSET PathCatalogue(lang) : Cardinality(t) <= MaxFiles}

WalkInit ==
    /\ w_lang \in Langs
    /\ w_depth \in Depths
    /\ w_exclude \in UserExcludeChoices
    /\ w_root \in BOOLEAN
    /\ w_tree \in (IF w_root THEN Trees(w_lang) ELSE {{}})
    /\ w_pc = "start"
    /\ w_excludes = {}
    /\ w_pattern = 0
    /\ w_pending = {}
    /\ w_parsed = {}
    /\ w_files = <<>>
    /\ w_imports = {}
    /\ w_counts = [files |-> 0, types |-> 0, members |-> 0]
    /\ w_frameworks = <<>>
    /\ w_output = <<>>

WalkIdle ==
    /\ w_lang = "cs"
    /\ w_depth = "methods"
    /\ w_exclude = {}
    /\ w_root = TRUE
    /\ w_tree = {}
    /\ w_pc = "start"
    /\ w_excludes = {}
    /\ w_pattern = 0
    /\ w_pending = {}
    /\ w_parsed = {}
    /\ w_files = <<>>
    /\ w_imports = {}
    /\ w_counts = [files |-> 0, types |-> 0, members |-> 0]
    /\ w_frameworks = <<>>
    /\ w_output = <<>>

walkInputs == <<w_lang, w_depth, w_exclude, w_tree, w_root>>

PendingFor(tree, lang, k) ==
    {p \in tree : MatchesPattern(p, Patterns(lang)[k])}

\* main(): the root does not exist: sys.exit(1)
RootMissing ==
    /\ w_pc = "start"
    /\ ~w_root
    /\ w_pc' = "failed"
    /\ UNCHANGED <<walkInputs, w_excludes, w_pattern, w_pending, w_parsed,
                   w_files, w_imports, w_counts, w_frameworks, w_output>>
    /\ UNCHANGED <<balVars, exVars, detVars, renVars, patchVars,
                   baseVars, nestVars>>

\* main(): the excludes are merged and the first pattern's rglob begins
BeginWalk ==
    /\ w_pc = "start"
    /\ w_root
    /\ w_pc' = "walk"
    /\ w_excludes' = DEFAULT_EXCLUDES(w_lang) \cup w_exclude
    /\ w_pattern' = 1
    /\ w_pending' = PendingFor(w_tree, w_lang, 1)
    /\ UNCHANGED <<walkInputs, w_parsed, w_files, w_imports, w_counts,
                   w_frameworks, w_output>>
    /\ UNCHANGED <<balVars, exVars, detVars, renVars, patchVars,
                   baseVars, nestVars>>

\* The walker leaves the path out before should_exclude is asked.
SkippedAsDeclaration(lang, path) == lang = "ts" /\ IsDeclarationFile(path)

\* main() loop body: `if ts_file.name.endswith('.d.ts'): continue`
SkipDeclarationFile ==
    /\ w_pc = "walk"
    /\ \E p \in w_pending :
        /\ SkippedAsDeclaration(w_lang, p)
        /\ w_pending' = w_pending \ {p}
    /\ UNCHANGED <<walkInputs, w_pc, w_excludes, w_pattern, w_parsed, w_files,
                   w_imports, w_counts, w_frameworks, w_output>>
    /\ UNCHANGED <<balVars, exVars, detVars, renVars, patchVars,
                   baseVars, nestVars>>

\* main() loop body: `if should_exclude(rel_path, excludes): continue`
SkipExcluded ==
    /\ w_pc = "walk"
    /\ \E p \in w_pending :
        /\ ~SkippedAsDeclaration(w_lang, p)
        /\ should_exclude(p, w_excludes)
        /\ w_pending' = w_pending \ {p}
    /\ UNCHANGED <<walkInputs, w_pc, w_excludes, w_pattern, w_parsed, w_files,
                   w_imports, w_counts, w_frameworks, w_output>>
    /\ UNCHANGED <<balVars, exVars, detVars, renVars, patchVars,
                   baseVars, nestVars>>

\* main() loop body: the per-file extractor returns None
SkipUnparsed ==
    /\ w_pc = "walk"
    /\ \E p \in w_pending :
        /\ ~SkippedAsDeclaration(w_lang, p)
        /\ ~should_exclude(p, w_excludes)
        /\ ~ReadRaises(p)
        /\ ParseSkips(w_lang, p)
        /\ w_pending' = w_pending \ {p}
        /\ w_parsed' = w_parsed \cup {p}
    /\ UNCHANGED <<walkInputs, w_pc, w_excludes, w_pattern, w_files,
                   w_imports, w_counts, w_frameworks, w_output>>
    /\ UNCHANGED <<balVars, exVars, detVars, renVars, patchVars,
                   baseVars, nestVars>>

\* main() loop body: the file model is appended, its imports and counts added
Aggregate ==
    /\ w_pc = "walk"
    /\ \E p \in w_pending :
        /\ ~SkippedAsDeclaration(w_lang, p)
        /\ ~should_exclude(p, w_excludes)
        /\ ~ReadRaises(p)
        /\ ~ParseSkips(w_lang, p)
        /\ w_pending' = w_pending \ {p}
        /\ w_parsed' = w_parsed \cup {p}
        /\ w_files' = Append(w_files, FileModel(w_lang, p, w_depth))
        /\ w_imports' = w_imports \cup FileModel(w_lang, p, w_depth).imports
        /\ w_counts' =
              [files |-> w_counts.files + 1,
               types |-> w_counts.types
                         + Len(FileModel(w_lang, p, w_depth).types),
               members |-> w_counts.members
                         + MemberCount(w_lang,
                                       FileModel(w_lang, p, w_depth).types)]
    /\ UNCHANGED <<walkInputs, w_pc, w_excludes, w_pattern, w_frameworks, w_output>>
    /\ UNCHANGED <<balVars, exVars, detVars, renVars, patchVars,
                   baseVars, nestVars>>

\* main(): one pattern's rglob is exhausted, the next pattern's begins
NextPattern ==
    /\ w_pc = "walk"
    /\ w_pending = {}
    /\ w_pattern < Len(Patterns(w_lang))
    /\ w_pattern' = w_pattern + 1
    /\ w_pending' = PendingFor(w_tree, w_lang, w_pattern + 1)
    /\ UNCHANGED <<walkInputs, w_pc, w_excludes, w_parsed, w_files,
                   w_imports, w_counts, w_frameworks, w_output>>
    /\ UNCHANGED <<balVars, exVars, detVars, renVars, patchVars,
                   baseVars, nestVars>>

\* main() loop body: the per-file extractor raises an error it does not
\* catch (read_text on a directory); main() catches nothing, the run ends
\* with a traceback and prints no text.
Crash ==
    /\ w_pc = "walk"
    /\ \E p \in w_pending :
        /\ ~SkippedAsDeclaration(w_lang, p)
        /\ ~should_exclude(p, w_excludes)
        /\ ReadRaises(p)
        /\ w_pending' = w_pending \ {p}
        /\ w_parsed' = w_parsed \cup {p}
    /\ w_pc' = "crashed"
    /\ UNCHANGED <<walkInputs, w_excludes, w_pattern, w_files, w_imports,
                   w_counts, w_frameworks, w_output>>
    /\ UNCHANGED <<balVars, exVars, detVars, renVars, patchVars,
                   baseVars, nestVars>>

\* main(): the walk is over: frameworks = detect_frameworks(all_imports),
\* output = format_output(...), and output + stats is printed or written
Finish ==
    /\ w_pc = "walk"
    /\ w_pending = {}
    /\ w_pattern = Len(Patterns(w_lang))
    /\ w_pc' = "done"
    /\ w_frameworks' = detect_frameworks(w_lang, w_imports)
    /\ w_output' = format_output(w_lang, w_files,
                                 detect_frameworks(w_lang, w_imports))
                   \o <<StatsLine(w_lang, w_counts)>>
    /\ UNCHANGED <<walkInputs, w_excludes, w_pattern, w_pending, w_parsed,
                   w_files, w_imports, w_counts>>
    /\ UNCHANGED <<balVars, exVars, detVars, renVars, patchVars,
                   baseVars, nestVars>>

Next ==
    \/ RootMissing
    \/ BeginWalk
    \/ SkipDeclarationFile
    \/ SkipExcluded
    \/ SkipUnparsed
    \/ Aggregate
    \/ Crash
    \/ NextPattern
    \/ Finish

\* ------------------------------------------------------------------------
\* The document patcher (update_claude_md.py). A text is the sequence of its
\* pieces: a line break, the mark of a second-level heading, a heading title,
\* hand-written text, and the two marker lines, each one piece.
\* ------------------------------------------------------------------------
MaxDoc == 4

MaxCalls == 2

NL == "\n"

START_MARKER == "<!-- CODEBASE-MAP:AUTO-START -->"

END_MARKER == "<!-- CODEBASE-MAP:AUTO-END -->"

DEFAULT_INSERT_AFTER == <<"## ", "Project Context">>

DocPieces == {NL, "## ", "Project Context", "text", START_MARKER, END_MARKER}

\* The map texts read_maps returns: the header and a section, or whatever
\* text a caller of update_claude_md hands in.
MapTexts == {<<"## ", "Architecture Map", NL, NL, "### Python: ", "root/">>,
             <<"text">>}

\* str.find(sub, start): the lowest offset at or after start, -1 if none
RECURSIVE find(_, _, _)
find(s, sub, start) ==
    IF start + Len(sub) > Len(s) THEN -1
    ELSE IF Slice(s, start, start + Len(sub)) = sub THEN start
    ELSE find(s, sub, start + 1)

RECURSIVE rstrip(_)
rstrip(s) ==
    IF s # <<>> /\ Last(s) = NL THEN rstrip(SubSeq(s, 1, Len(s) - 1)) ELSE s

RECURSIVE lstrip(_)
lstrip(s) == IF s # <<>> /\ Head(s) = NL THEN lstrip(Tail(s)) ELSE s

\* marked_section = f"\n\n{START_MARKER}\n{map_content}\n{END_MARKER}\n"
marked_section(map_content) ==
    <<NL, NL, START_MARKER, NL>> \o map_content \o <<NL, END_MARKER, NL>>

\* Mutant: the marked section is always inserted, markers or not.
update_claude_mdMutAlwaysInsert(content, map_content, insert_after) ==
    rstrip(content) \o marked_section(map_content)

\* update_claude_md: the text written back to the document
update_claude_md(content, map_content, insert_after) ==
    LET start_idx == find(content, <<START_MARKER>>, 0)
        end_idx == find(content, <<END_MARKER>>, 0)
        insert_pos == find(content, insert_after, 0)
        found == find(content, <<NL, "## ">>, insert_pos + Len(insert_after))
        section_end == IF found = -1 THEN Len(content) ELSE found
    IN  IF start_idx # -1 /\ end_idx # -1
        THEN Slice(content, 0, start_idx) \o <<START_MARKER, NL>>
             \o map_content \o <<NL>>
             \o Slice(content, end_idx, Len(content))
        ELSE IF insert_pos = -1
        THEN rstrip(content) \o marked_section(map_content)
        ELSE rstrip(Slice(content, 0, section_end))
             \o marked_section(map_content)
             \o Slice(content, section_end, Len(content))

\* remove_map_section: the text written back, the text itself when a marker
\* is missing
remove_map_section(content) ==
    LET start_idx == find(content, <<START_MARKER>>, 0)
        end_idx == find(content, <<END_MARKER>>, 0)
    IN  IF start_idx = -1 \/ end_idx = -1 THEN content
        ELSE rstrip(Slice(content, 0, start_idx)) \o <<NL, NL>>
             \o lstrip(Slice(content, end_idx + 1, Len(content)))

PatchInit ==
    /\ p_exists \in BOOLEAN
    /\ p_doc \in (IF p_exists THEN SeqsUpTo(DocPieces, MaxDoc) ELSE {<<>>})
    /\ p_map \in MapTexts
    /\ p_init = p_doc
    /\ p_prev = <<>>
    /\ p_first = <<>>
    /\ p_log = <<>>

PatchIdle ==
    /\ p_exists = FALSE
    /\ p_doc = <<>>
    /\ p_map = <<>>
    /\ p_init = <<>>
    /\ p_prev = <<>>
    /\ p_first = <<>>
    /\ p_log = <<>>

\* update_claude_md / remove_map_section: the document does not exist, the
\* call reports the error and returns False
DocumentMissing ==
    /\ ~p_exists
    /\ Len(p_log) < MaxCalls
    /\ p_log' = Append(p_log, "missing")
    /\ UNCHANGED <<p_exists, p_doc, p_map, p_init, p_prev, p_first>>
    /\ UNCHANGED <<balVars, exVars, walkVars, detVars, renVars,
                   baseVars, nestVars>>

\* main() without --remove: update_claude_md(args.claude_md, map_content,
\* args.insert_after)
CallUpdate ==
    /\ p_exists
    /\ Len(p_log) < MaxCalls
    /\ p_prev' = p_doc
    /\ p_doc' = update_claude_md(p_doc, p_map, DEFAULT_INSERT_AFTER)
    /\ p_first' = IF "update" \in Range(p_log) THEN p_first ELSE p_doc'
    /\ p_log' = Append(p_log, "update")
    /\ UNCHANGED <<p_exists, p_map, p_init>>
    /\ UNCHANGED <<balVars, exVars, walkVars, detVars, renVars,
                   baseVars, nestVars>>

\* main() with --remove: remove_map_section(args.claude_md)
CallRemove ==
    /\ p_exists
    /\ Len(p_log) < MaxCalls
    /\ p_prev' = p_doc
    /\ p_doc' = remove_map_section(p_doc)
    /\ p_log' = Append(p_log, "remove")
    /\ UNCHANGED <<p_exists, p_map, p_init, p_first>>
    /\ UNCHANGED <<balVars, exVars, walkVars, detVars, renVars,
                   baseVars, nestVars>>

\* ------------------------------------------------------------------------
\* The base lists of parse_type (C#), parse_class and parse_file
\* (TypeScript). A base type as written is a name with a number of generic
\* arguments; the text of a clause is the sequence of its pieces, with "<",
\* ">", "," and " " pieces of their own.
\* ------------------------------------------------------------------------
MaxClause == 2

MaxArgs == 2

BaseTypeNames == {"Base", "IFoo"}

BaseTypes == [name : BaseTypeNames, args : 0..MaxArgs]

Clauses == SeqsUpTo(BaseTypes, MaxClause)

ArgName(k) == "T" \o ToString(k)

\* The text of a base type: Base, Base<T1>, Base<T1, T2> (C#) or Base<T1,T2>
\* (TypeScript, whose patterns admit no blank inside a clause).
RECURSIVE ArgsText(_, _, _)
ArgsText(k, n, sep) ==
    IF k > n THEN <<>>
    ELSE (IF k > 1 THEN sep ELSE <<>>) \o <<ArgName(k)>>
         \o ArgsText(k + 1, n, sep)

BaseTypeText(b, sep) ==
    <<b.name>> \o (IF b.args = 0 THEN <<>>
                   ELSE <<"<">> \o ArgsText(1, b.args, sep) \o <<">">>)

RECURSIVE ClauseText(_, _)
ClauseText(clause, sep) ==
    IF clause = <<>> THEN <<>>
    ELSE BaseTypeText(Head(clause), sep)
         \o (IF Len(clause) > 1 THEN sep ELSE <<>>)
         \o ClauseText(Tail(clause), sep)

\* match.group('bases') of TYPE_PATTERN: everything between ':' and '{'
CsBasesGroup(clause, where) ==
    ClauseText(clause, <<",", " ">>)
    \o (IF where THEN <<" ", "where", " ", "T", " ", ":", " ", "IBar">>
        ELSE <<>>)
    \o <<" ">>

\* str.split(sep) for a one-piece separator
RECURSIVE split(_, _)
split(s, sep) ==
    IF \E k \in 1..Len(s) : s[k] = sep
    THEN LET k == CHOOSE i \in 1..Len(s) :
                      s[i] = sep /\ \A j \in 1..(i - 1) : s[j] # sep
         IN  <<SubSeq(s, 1, k - 1)>> \o split(SubSeq(s, k + 1, Len(s)), sep)
    ELSE <<s>>

\* str.strip()
RECURSIVE strip(_)
strip(s) ==
    IF s # <<>> /\ Head(s) = " " THEN strip(Tail(s))
    ELSE IF s # <<>> /\ Last(s) = " " THEN strip(SubSeq(s, 1, Len(s) - 1))
    ELSE s

\* re.sub(r'\bwhere\b.*', '', bases_str)
CutWhere(s) ==
    IF \E k \in 1..Len(s) : s[k] = "where"
    THEN SubSeq(s, 1, (CHOOSE k \in 1..Len(s) :
                          s[k] = "where"
                          /\ \A j \in 1..(k - 1) : s[j] # "where") - 1)
    ELSE s

\* re.sub(r'<[^>]+>', '', base)
RECURSIVE RemoveGenerics(_)
RemoveGenerics(s) ==
    IF s = <<>> THEN <<>>
    ELSE IF /\ Head(s) = "<"
            /\ \E j \in 3..Len(s) :
                  s[j] = ">" /\ \A k \in 2..(j - 1) : s[k] # ">"
    THEN RemoveGenerics(
             SubSeq(s, 1 + (CHOOSE j \in 3..Len(s) :
                               s[j] = ">" /\ \A k \in 2..(j - 1) : s[k] # ">"),
                    Len(s)))
    ELSE <<Head(s)>> \o RemoveGenerics(Tail(s))

\* parse_type: the bases of a C# type
CsBases(bases_str) ==
    LET parts == split(CutWhere(bases_str), ",")
        stripped == [k \in 1..Len(parts) |-> strip(parts[k])]
        kept == SelectSeq(stripped, LAMBDA base : base # <<>>)
    IN  IF bases_str = <<>> THEN <<>>
        ELSE [k \in 1..Len(kept) |-> RemoveGenerics(kept[k])]

\* parse_class: the bases of a TypeScript class
TsClassBases(extends, implements) ==
    LET impls == split(implements, ",")
        heads == [k \in 1..Len(impls) |-> strip(split(impls[k], "<")[1])]
    IN  (IF extends # <<>> THEN <<strip(split(extends, "<")[1])>> ELSE <<>>)
        \o (IF implements # <<>>
            THEN SelectSeq(heads, LAMBDA impl : impl # <<>>)
            ELSE <<>>)

\* parse_file: the bases of a TypeScript interface
TsInterfaceBases(extends) == IF extends # <<>> THEN <<extends>> ELSE <<>>

BaseInit ==
    /\ g_kind \in {"cs", "ts_class", "ts_interface"}
    /\ g_extends \in (IF g_kind = "ts_class" THEN SeqsUpTo(BaseTypes, 1)
                      ELSE Clauses)
    /\ g_implements \in (IF g_kind = "ts_class" THEN Clauses ELSE {<<>>})
    /\ g_where \in (IF g_kind = "cs" /\ g_extends # <<>> THEN BOOLEAN
                    ELSE {FALSE})
    /\ g_bases = <<>>
    /\ g_pc = "start"

BaseIdle ==
    /\ g_kind = "cs"
    /\ g_extends = <<>>
    /\ g_implements = <<>>
    /\ g_where = FALSE
    /\ g_bases = <<>>
    /\ g_pc = "idle"

\* parse_type on a C# type head
CsParseBases ==
    /\ g_pc = "start"
    /\ g_kind = "cs"
    /\ g_bases' = (IF g_extends = <<>> THEN <<>>
                   ELSE CsBases(CsBasesGroup(g_extends, g_where)))
    /\ g_pc' = "done"
    /\ UNCHANGED <<g_kind, g_extends, g_implements, g_where>>
    /\ UNCHANGED <<balVars, exVars, walkVars, detVars, renVars,
                   patchVars, nestVars>>

\* parse_class on a TypeScript class head
TsParseClassBases ==
    /\ g_pc = "start"
    /\ g_kind = "ts_class"
    /\ g_bases' = TsClassBases(ClauseText(g_extends, <<",">>),
                               ClauseText(g_implements, <<",">>))
    /\ g_pc' = "done"
    /\ UNCHANGED <<g_kind, g_extends, g_implements, g_where>>
    /\ UNCHANGED <<balVars, exVars, walkVars, detVars, renVars,
                   patchVars, nestVars>>

\* parse_file on a TypeScript interface head
TsParseInterfaceBases ==
    /\ g_pc = "start"
    /\ g_kind = "ts_interface"
    /\ g_bases' = TsInterfaceBases(ClauseText(g_extends, <<",">>))
    /\ g_pc' = "done"
    /\ UNCHANGED <<g_kind, g_extends, g_implements, g_where>>
    /\ UNCHANGED <<balVars, exVars, walkVars, detVars, renVars,
                   patchVars, nestVars>>

\* ---------------------------------------------------------------------
\* Nested declarations: which type of the file model a member lands in.
\* A file is one type, whose body mixes members and nested types, followed
\* by declarations after the type's closing delimiter.
\* ---------------------------------------------------------------------

MaxBody == 2

NestMember == [kind |-> "member", body |-> <<>>]

NestType(body) == [kind |-> "type", body |-> body]

InnerTypes == {NestType([k \in 1..n |-> NestMember]) : n \in 0..MaxBody}

OuterTypes ==
    {NestType(b) : b \in SeqsUpTo({NestMember} \cup InnerTypes, MaxBody)}

\* What follows the closing delimiter of the first type.
NestTails ==
    {<<>>, <<NestMember>>, <<NestType(<<NestMember>>)>>,
     <<NestMember, NestType(<<NestMember>>)>>}

NestFiles == {<<o>> \o t : o \in OuterTypes, t \in NestTails}

\* The text of the declarations: a type is its head, "{", its body, "}";
\* a member is its head and an empty block.
RECURSIVE NestText(_)
NestText(items) ==
    IF items = <<>> THEN <<>>
    ELSE (IF Head(items).kind = "member"
          THEN <<"m()", "{", "}">>
          ELSE <<"class", "{">> \o NestText(Head(items).body) \o <<"}">>)
         \o NestText(Tail(items))

\* The offsets at which a pattern's matches start, in text order
\* (re.finditer): the type pattern matches at "class", the member
\* patterns at "m()".
MatchOffsets(content, token) ==
    SelectSeq([i \in 1..Len(content) |-> i - 1],
              LAMBDA i : At(content, i) = token)

\* METHOD_PATTERN.finditer(type_body) / the member loop of parse_class,
\* with each match named by its offset in the file.
BodyMembers(content, body_start, body_end) ==
    LET type_body == Slice(content, body_start, body_end)
        found == MatchOffsets(type_body, "m()")
    IN  [k \in 1..Len(found) |-> body_start + found[k]]

\* parse_type (C#) on the type head matched at offset start.
CsNestedParseType(content, start) ==
    LET type_start == start + 1
        type_end == find_type_end(content, start)
    IN  [type |-> start,
         members |-> BodyMembers(content, type_start, type_end)]

\* parse_class (TypeScript) on the class head matched at offset start.
TsNestedParseClass(content, start) ==
    LET class_start == start + 1
        class_end == find_block_end(content, start)
    IN  [type |-> start,
         members |-> BodyMembers(content, class_start, class_end)]

\* parse_file (C#): every match of TYPE_PATTERN in the content is parsed.
CsNestedTypes(content) ==
    LET heads == MatchOffsets(content, "class")
    IN  [k \in 1..Len(heads) |-> CsNestedParseType(content, heads[k])]

\* parse_file (TypeScript): every match of CLASS_PATTERN in the content.
TsNestedTypes(content) ==
    LET heads == MatchOffsets(content, "class")
    IN  [k \in 1..Len(heads) |-> TsNestedParseClass(content, heads[k])]

NestItemLen(item) ==
    IF item.kind = "member" THEN 3 ELSE 3 + Len(NestText(item.body))

\* The offset in the file of each item of a body starting at base.
RECURSIVE ItemOffsets(_, _)
ItemOffsets(items, base) ==
    IF items = <<>> THEN <<>>
    ELSE <<base>> \o ItemOffsets(Tail(items), base + NestItemLen(Head(items)))

\* parse_class (Python): the FunctionDef nodes of node.body, and only those.
PyNestedParseClass(node, start) ==
    LET offs == ItemOffsets(node.body, start + 2)
        ks == SelectSeq(Indices(node.body),
                        LAMBDA k : node.body[k].kind = "member")
    IN  [type |-> start, members |-> [k \in 1..Len(ks) |-> offs[ks[k]]]]

\* The ClassDef nodes among the items of a body starting at base.
ClassDefsIn(items, base) ==
    LET offs == ItemOffsets(items, base)
        ks == SelectSeq(Indices(items), LAMBDA k : items[k].kind = "type")
    IN  [k \in 1..Len(ks) |-> [node |-> items[ks[k]], start |-> offs[ks[k]]]]

RECURSIVE PyNestedClassDefs(_)
PyNestedClassDefs(defs) ==
    IF defs = <<>> THEN <<>>
    ELSE ClassDefsIn(Head(defs).node.body, Head(defs).start + 2)
         \o PyNestedClassDefs(Tail(defs))

\* parse_module: ast.walk visits the tree breadth first, and every ClassDef
\* it meets is parsed.
PyNestedTypes(module) ==
    LET top == ClassDefsIn(module, 0)
        defs == top \o PyNestedClassDefs(top)
    IN  [k \in 1..Len(defs) |->
            PyNestedParseClass(defs[k].node, defs[k].start)]

NestInit ==
    /\ n_lang \in Langs
    /\ n_file \in NestFiles
    /\ n_types = <<>>
    /\ n_pc = "start"

NestIdle ==
    /\ n_lang = "cs"
    /\ n_file = <<>>
    /\ n_types = <<>>
    /\ n_pc = "idle"

\* parse_file of map_csharp.py
CsNestedParseFile ==
    /\ n_pc = "start"
    /\ n_lang = "cs"
    /\ n_types' = CsNestedTypes(NestText(n_file))
    /\ n_pc' = "done"
    /\ UNCHANGED <<n_lang, n_file>>
    /\ UNCHANGED <<balVars, exVars, walkVars, detVars, renVars,
                   patchVars, baseVars>>

\* parse_file of map_typescript.py
TsNestedParseFile ==
    /\ n_pc = "start"
    /\ n_lang = "ts"
    /\ n_types' = TsNestedTypes(NestText(n_file))
    /\ n_pc' = "done"
    /\ UNCHANGED <<n_lang, n_file>>
    /\ UNCHANGED <<balVars, exVars, walkVars, detVars, renVars,
                   patchVars, baseVars>>

\* parse_module of map_python.py
PyNestedParseModule ==
    /\ n_pc = "start"
    /\ n_lang = "py"
    /\ n_types' = PyNestedTypes(n_file)
    /\ n_pc' = "done"
    /\ UNCHANGED <<n_lang, n_file>>
    /\ UNCHANGED <<balVars, exVars, walkVars, detVars, renVars,
                   patchVars, baseVars>>

Init ==
    WalkInit /\ BalIdle /\ ExIdle /\ DetIdle /\ RenIdle /\ PatchIdle /\ BaseIdle
    /\ NestIdle

Spec == Init /\ [][Next]_vars

\* The extractor applied to one declaration under each depth policy.
ExNext == CsParseType \/ TsParseClass \/ PyParseClass

InitExtract ==
    ExInit /\ BalIdle /\ WalkIdle /\ DetIdle /\ RenIdle /\ PatchIdle /\ BaseIdle
    /\ NestIdle

SpecExtract == InitExtract /\ [][ExNext]_vars

\* The balancer applied to one text and start offset.
InitBalance ==
    BalInit /\ ExIdle /\ WalkIdle /\ DetIdle /\ RenIdle /\ PatchIdle /\ BaseIdle
    /\ NestIdle

SpecBalance == InitBalance /\ [][BalNext]_vars

\* The detector applied to the identifiers of a run.
DetNext == CollectImports \/ DetectFrameworks

InitDetect ==
    DetInit /\ BalIdle /\ ExIdle /\ WalkIdle /\ RenIdle /\ PatchIdle /\ BaseIdle
    /\ NestIdle

SpecDetect == InitDetect /\ [][DetNext]_vars

\* The formatter applied to one type.
RenNext == CallCsFormatType \/ CallTsFormatType \/ CallPyFormatClass

InitRender ==
    RenInit /\ BalIdle /\ ExIdle /\ WalkIdle /\ DetIdle /\ PatchIdle /\ BaseIdle
    /\ NestIdle

SpecRender == InitRender /\ [][RenNext]_vars

\* The patcher applied to one document, a bounded number of times.
PatchNext == DocumentMissing \/ CallUpdate \/ CallRemove

InitPatch ==
    PatchInit /\ BalIdle /\ ExIdle /\ WalkIdle /\ DetIdle /\ RenIdle /\ BaseIdle
    /\ NestIdle

SpecPatch == InitPatch /\ [][PatchNext]_vars

\* The base list of one type head.
BaseNext == CsParseBases \/ TsParseClassBases \/ TsParseInterfaceBases

InitBases ==
    BaseInit /\ BalIdle /\ ExIdle /\ WalkIdle /\ DetIdle /\ RenIdle /\ PatchIdle
    /\ NestIdle

SpecBases == InitBases /\ [][BaseNext]_vars

NestNext == CsNestedParseFile \/ TsNestedParseFile \/ PyNestedParseModule

InitNest ==
    NestInit /\ BalIdle /\ ExIdle /\ WalkIdle /\ DetIdle /\ RenIdle /\ PatchIdle
    /\ BaseIdle

SpecNest == InitNest /\ [][NestNext]_vars

\* ---- Properties of the extractors ---------------------------------------

\* The member list of a constructed type: TypeInfo.members, or the methods
\* and properties of a Python ClassInfo.
MembersOf(lang, t) ==
    IF lang = "py" THEN t.methods \o t.properties ELSE t.members

\* a is a sub-list of b: b with some entries left out.
RECURSIVE IsSubSeq(_, _)
IsSubSeq(a, b) ==
    IF a = <<>> THEN TRUE
    ELSE IF b = <<>> THEN FALSE
    ELSE IF Head(a) = Head(b) THEN IsSubSeq(Tail(a), Tail(b))
    ELSE IsSubSeq(a, Tail(b))

\* C3: under depth policy `classes` the type every front end constructs has
\* an empty member list, whatever the body declares (the run's member count,
\* the sum of the lengths of these lists, is then 0).
C3_ClassesHasNoMembers ==
    "classes" \in x_ran =>
        /\ MembersOf(x_lang, x_type["classes"]) = <<>>
        /\ Len(MembersOf(x_lang, x_type["classes"])) = 0
        /\ x_src["classes"] = <<>>

\* A C# class whose body yields members under `full` and none under `classes`.
C3_Witness ==
    /\ x_lang = "cs"
    /\ x_decl.kind = "class"
    /\ {"classes", "full"} \subseteq x_ran
    /\ Len(x_type["full"].members) = 2
    /\ x_type["classes"].members = <<>>

\* The member declaration carries a private or protected marker: one of the
\* leading modifier keywords of its head, which a head pattern is to capture
\* as a set (C#, TypeScript), or a single leading underscore (Python).
HasHiddenMarker(lang, d) ==
    IF lang = "py"
    THEN d.kind = "def" /\ StartsWith(d.name, <<"_">>)
         /\ ~StartsWith(d.name, <<"_", "_">>)
    ELSE \E k \in 1..Len(d.mods) : d.mods[k] \in {"private", "protected"}

\* The declaration is a constructor or accessor (or another name the front
\* end leaves out at every depth).
IsStructuralName(lang, declName, d) ==
    IF lang = "cs" THEN CsSkipsStructural(declName, d.name)
    ELSE IF lang = "ts" THEN d.name \in TsSkippedNames
    ELSE FALSE

\* C4 (as stated): under `methods` no member declared with a private or a
\* protected marker is in the member list, in every front end; under `full`
\* such members are kept.
C4_MethodsDropsPrivateAndProtected ==
    /\ "methods" \in x_ran =>
          \A k \in 1..Len(x_src["methods"]) :
              ~HasHiddenMarker(x_lang, x_decl.body[x_src["methods"][k]])
    /\ ("full" \in x_ran /\ x_decl.kind = "class") =>
          \A i \in 1..Len(x_decl.body) :
              (HasHiddenMarker(x_lang, x_decl.body[i])
               /\ ~IsStructuralName(x_lang, x_decl.name, x_decl.body[i]))
                  => \E k \in 1..Len(x_src["full"]) : x_src["full"][k] = i

\* C5: for a fixed declaration the member list under `classes` is a sub-list
\* of the list under `methods`, which is a sub-list of the list under `full`;
\* so are the counts ordered.
C5_DepthMonotone ==
    /\ {"classes", "methods"} \subseteq x_ran =>
          /\ IsSubSeq(MembersOf(x_lang, x_type["classes"]),
                      MembersOf(x_lang, x_type["methods"]))
          /\ Len(MembersOf(x_lang, x_type["classes"]))
                <= Len(MembersOf(x_lang, x_type["methods"]))
    /\ {"methods", "full"} \subseteq x_ran =>
          /\ IsSubSeq(MembersOf(x_lang, x_type["methods"]),
                      MembersOf(x_lang, x_type["full"]))
          /\ IsSubSeq(x_src["methods"], x_src["full"])
          /\ Len(MembersOf(x_lang, x_type["methods"]))
                <= Len(MembersOf(x_lang, x_type["full"]))

\* A Python class with one public and one private method: 0 < 1 < 2 members.
C5_Witness ==
    /\ x_lang = "py"
    /\ x_ran = Depths
    /\ Len(MembersOf("py", x_type["classes"])) = 0
    /\ Len(MembersOf("py", x_type["methods"])) = 1
    /\ Len(MembersOf("py", x_type["full"])) = 2


\* ---- Properties of the balancer ----------------------------------------

\* Openers minus closers counted over content[start..r] (both ends included).
DepthAt(content, start, r) ==
    Cardinality({k \in start..r : At(content, k) = "{"})
    - Cardinality({k \in start..r : At(content, k) = "}"})

\* A closer at which the running depth counted from start is exactly zero.
ZeroCloser(content, start, p) ==
    /\ p \in start..(Len(content) - 1)
    /\ At(content, p) = "}"
    /\ DepthAt(content, start, p) = 0

\* C1: the balancer returns r with start <= r <= len(text); either r < len,
\* text[r] is a closing delimiter at which the depth counted over
\* text[start..r] is zero (and r is the first such offset), or no such offset
\* exists and r = len(text).
C1_BalancerContract ==
    b_fn # "none" =>
        /\ b_start <= b_ret
        /\ b_ret <= Len(b_content)
        /\ \/ /\ b_ret < Len(b_content)
              /\ ZeroCloser(b_content, b_start, b_ret)
              /\ \A p \in b_start..(b_ret - 1) : ~ZeroCloser(b_content, b_start, p)
           \/ /\ b_ret = Len(b_content)
              /\ \A p \in b_start..(Len(b_content) - 1) :
                     ~ZeroCloser(b_content, b_start, p)

\* Both outcomes of C1 happen: a nested block closed inside the text ...
C1_WitnessClosed ==
    /\ b_fn = "find_type_end"
    /\ b_content = <<"{", "{", "}", "}">>
    /\ b_start = 0
    /\ b_ret = 3

\* The segment content[lo..hi-1] is balanced: no prefix closes more than it
\* opened, and the whole segment closes everything it opened.
BalancedSegment(content, lo, hi) ==
    /\ \A p \in lo..(hi - 1) : DepthAt(content, lo, p) >= 0
    /\ (hi > lo => DepthAt(content, lo, hi - 1) = 0)

\* j is the closer matching the opener at offset o (the closer of the block
\* the opener began): everything between them is balanced.
IsMatchingCloser(content, o, j) ==
    /\ o \in 0..(Len(content) - 1)
    /\ j \in (o + 1)..(Len(content) - 1)
    /\ At(content, o) = "{"
    /\ At(content, j) = "}"
    /\ BalancedSegment(content, o + 1, j)

\* The first delimiter at or after start is an opener, at offset o.
FirstDelimiterIsOpenerAt(content, start, o) ==
    /\ o \in start..(Len(content) - 1)
    /\ At(content, o) = "{"
    /\ \A k \in start..(o - 1) : At(content, k) = "x"

\* C2 (as stated): given a start offset immediately after an opening
\* delimiter, the balancer returns the offset of the closer matching that
\* opener, whenever that closer exists.
C2_StartAfterOpenerFindsMatch ==
    (b_fn # "none" /\ b_start >= 1) =>
        \A j \in 0..(Len(b_content) - 1) :
            IsMatchingCloser(b_content, b_start - 1, j) => b_ret = j

\* C2 (amended): given a start offset at the opening delimiter, or before it
\* with no delimiter in between (the callers pass the start of the
\* declaration head), the balancer returns the offset of the closer matching
\* that opener, whenever that closer exists.
C2_StartAtOpenerFindsMatch ==
    b_fn # "none" =>
        \A o, j \in 0..(Len(b_content) - 1) :
            (FirstDelimiterIsOpenerAt(b_content, b_start, o)
             /\ IsMatchingCloser(b_content, o, j)) => b_ret = j

\* A head before the opener, a nested block, and the matching closer found.
C2_Witness ==
    /\ b_fn = "find_block_end"
    /\ b_content = <<"x", "{", "{", "}", "}">>
    /\ b_start = 0
    /\ b_ret = 4

\* ---- Properties of the tree walker --------------------------------------

\* Some segment of the path (relative to the root: the directory names and
\* the file's own name) equals a name of the exclude set, the front end's
\* defaults merged with the user's excludes, or begins with '.'.
HasOffendingSegment(path) ==
    \E i \in 1..Len(path) :
        \/ path[i] \in DEFAULT_EXCLUDES(w_lang)
        \/ path[i] \in w_exclude
        \/ path[i][1] = "."

\* s ends with the pieces of suffix.
EndsWith(s, suffix) ==
    /\ Len(s) >= Len(suffix)
    /\ \A k \in 1..Len(suffix) : s[Len(s) - Len(suffix) + k] = suffix[k]

\* The file's name ends with `.d.ts`.
NamedAsDeclarationFile(path) == EndsWith(path[Len(path)], <<".d", ".ts">>)

PathsOf(files) == {files[k].path : k \in 1..Len(files)}

\* The imports, as the extractor collects them, of the files of a set.
ImportsOfPaths(paths) ==
    UNION {FileModel(w_lang, p, w_depth).imports : p \in paths}

\* C6 (as stated): a file is left out of the walk if and only if some segment
\* of its path is in the exclude set or begins with '.'; such a file is never
\* extracted and never shows in the aggregate, the imports or the counts.
C6_ExcludedIffOffendingSegment ==
    /\ \A p \in w_parsed : ~HasOffendingSegment(p)
    /\ \A p \in PathsOf(w_files) : ~HasOffendingSegment(p)
    /\ w_imports \subseteq
          ImportsOfPaths({p \in w_tree : ~HasOffendingSegment(p)})
    /\ w_counts.files <=
          Cardinality({p \in w_tree : ~HasOffendingSegment(p)})
    /\ w_pc = "done" =>
          \A p \in w_tree : p \notin w_parsed <=> HasOffendingSegment(p)

\* C6 (amended): a file is left out of the walk if and only if some segment
\* of its path relative to the root (a directory name or the file's own
\* name) is in the exclude set or begins with '.', or, in the TypeScript
\* walker, its name ends with `.d.ts`; such a file is never extracted and
\* never shows in the aggregate, the imports or the counts, whatever the
\* depth policy and the position of the segment.
C6_ExcludedIffOffendingOrDeclaration ==
    /\ \A p \in w_parsed : ~HasOffendingSegment(p)
    /\ \A p \in PathsOf(w_files) : ~HasOffendingSegment(p)
    /\ w_imports \subseteq
          ImportsOfPaths({p \in w_tree : ~HasOffendingSegment(p)})
    /\ w_counts.files <=
          Cardinality({p \in w_tree : ~HasOffendingSegment(p)})
    /\ w_pc = "done" =>
          \A p \in w_tree :
              p \notin w_parsed <=>
                  \/ HasOffendingSegment(p)
                  \/ (w_lang = "ts" /\ NamedAsDeclarationFile(p))

\* A finished Python walk over a file at the root, a file under a
\* default-excluded directory below a package, and a file under a directory
\* the user excluded: only the first was extracted.
C6_Witness ==
    /\ w_pc = "done"
    /\ w_lang = "py"
    /\ w_exclude = {Name("gen")}
    /\ w_tree = {<<<<"a", ".py">>>>,
                 <<Name("pkg"), Name("node_modules"), <<"c", ".py">>>>,
                 <<Name("gen"), <<"e", ".py">>>>}
    /\ w_parsed = {<<<<"a", ".py">>>>}
    /\ w_counts.files = 1
    /\ w_imports = {<<"fastapi">>, <<"os">>}

\* C7: in the TypeScript walker a file whose name ends with `.d.ts` is never
\* extracted and never aggregated (no file model, none of its imports, no
\* count), for every exclude set and depth policy.
C7_DeclarationFilesNeverExtracted ==
    w_lang = "ts" =>
        /\ \A p \in w_parsed : ~NamedAsDeclarationFile(p)
        /\ \A p \in PathsOf(w_files) : ~NamedAsDeclarationFile(p)
        /\ w_imports \subseteq
              ImportsOfPaths({p \in w_tree : ~NamedAsDeclarationFile(p)})
        /\ w_counts.files <=
              Cardinality({p \in w_tree : ~NamedAsDeclarationFile(p)})

\* A finished TypeScript walk, no user excludes, over a source file and a
\* declaration file: only the source file was extracted.
C7_Witness ==
    /\ w_pc = "done"
    /\ w_lang = "ts"
    /\ w_exclude = {}
    /\ w_tree = {<<<<"a", ".ts">>>>, <<<<"types", ".d", ".ts">>>>}
    /\ w_parsed = {<<<<"a", ".ts">>>>}
    /\ Len(w_files) = 1
    /\ <<"next">> \notin w_imports

\* The display names of the static mapping in declaration order, each at its
\* first entry only.
DistinctNames(lang) ==
    LET m == FRAMEWORK_INDICATORS(lang)
        firsts == SelectSeq([k \in 1..Len(m) |-> k],
                            LAMBDA k : \A j \in 1..(k - 1) : m[j][2] # m[k][2])
    IN  [k \in 1..Len(firsts) |-> m[firsts[k]][2]]

\* Some import of an aggregated file hits an entry that carries the name.
NameIsHit(lang, imports, name) ==
    \E k \in 1..Len(FRAMEWORK_INDICATORS(lang)) :
        /\ FRAMEWORK_INDICATORS(lang)[k][2] = name
        /\ \E i \in imports : Hits(lang, i, FRAMEWORK_INDICATORS(lang)[k][1])

\* The files of the tree the walk aggregates, whatever the order.
AggregatedPaths ==
    {p \in w_tree : /\ ~HasOffendingSegment(p)
                    /\ ~(w_lang = "ts" /\ NamedAsDeclarationFile(p))
                    /\ ~ParseSkips(w_lang, p)}

\* C9: the detector's output lists display names in the mapping's
\* declaration order, holds each display name at most once, and is
\* determined by the set of aggregated files alone, not by the order in
\* which the walk aggregated them.
C9_DetectorOrderAndUniqueness ==
    w_pc = "done" =>
        /\ \A k, l \in 1..Len(w_frameworks) :
              k # l => w_frameworks[k] # w_frameworks[l]
        /\ IsSubSeq(w_frameworks, DistinctNames(w_lang))
        /\ w_frameworks =
              SelectSeq(DistinctNames(w_lang),
                        LAMBDA n : NameIsHit(w_lang,
                                             ImportsOfPaths(AggregatedPaths), n))

\* A finished TypeScript walk that aggregated b.ts (which imports both
\* `@nestjs/core` and `nestjs`) before a.ts: React is listed first, NestJS
\* once.
C9_Witness ==
    /\ w_pc = "done"
    /\ w_lang = "ts"
    /\ Len(w_files) = 2
    /\ w_files[1].path = <<Name("pkg"), <<"b", ".ts">>>>
    /\ w_files[2].path = <<<<"a", ".ts">>>>
    /\ w_frameworks = <<"React", "NestJS">>

\* ---- Properties of the framework detector -------------------------------

\* The separator of the front end's identifiers: the namespace separator of
\* C# and Python, the path separator of TypeScript module specifiers.
Separator(lang) == IF lang = "ts" THEN "/" ELSE "."

\* The identifier equals the prefix or starts with the prefix followed by the
\* separator.
EqualsOrExtends(lang, id, prefix) ==
    \/ id = prefix
    \/ StartsWith(id, prefix \o <<Separator(lang)>>)

DisplayNames(lang) ==
    {FRAMEWORK_INDICATORS(lang)[k][2] :
        k \in 1..Len(FRAMEWORK_INDICATORS(lang))}

\* C8: the detector reports a framework's display name if and only if some
\* import identifier equals one of the framework's prefixes or starts with
\* the prefix followed by a path/namespace separator; an identifier that only
\* starts with the prefix followed by other characters does not count.
C8_HitIffEqualOrPrefixWithSeparator ==
    d_pc = "done" =>
        \A name \in DisplayNames(d_lang) :
            name \in Range(d_detected) <=>
                \E k \in 1..Len(FRAMEWORK_INDICATORS(d_lang)) :
                    /\ FRAMEWORK_INDICATORS(d_lang)[k][2] = name
                    /\ \E id \in d_written :
                          EqualsOrExtends(d_lang, id,
                                          FRAMEWORK_INDICATORS(d_lang)[k][1])

\* ---- Properties of the renderer -----------------------------------------

\* The bases a rendered line shows, in the order of the line.
ShownBases(line) == SelectSeq(line, LAMBDA piece : piece \in BaseNames)

\* The overflow count that follows the last base of the line, "none" when
\* the line has none.
BasesOverflow(line) ==
    IF \E k \in 1..Len(line) :
           line[k] \in BaseNames /\ k + 2 <= Len(line) /\ line[k + 1] = " (+"
    THEN LET k == CHOOSE j \in 1..Len(line) :
                      line[j] \in BaseNames /\ j + 2 <= Len(line)
                      /\ line[j + 1] = " (+"
         IN  line[k + 2]
    ELSE "none"

\* The first min(n, cap) bases with an overflow count of n - cap exactly
\* when n > cap.
ShowsCapped(line, bases, cap) ==
    /\ ShownBases(line) = Prefix(bases, cap)
    /\ BasesOverflow(line) =
          (IF Len(bases) > cap THEN ToString(Len(bases) - cap) ELSE "none")

MethodsOf(lang, t) ==
    IF lang = "py" THEN t.methods
    ELSE LET ms == SelectSeq(t.members, LAMBDA m : m.kind = "method")
         IN  [k \in 1..Len(ms) |-> ms[k].name]

IsMethodName(piece) == \E k \in 1..(MaxMethods + 1) : piece = MethodName(k)

\* The method names a rendered line shows, in the order of the line.
ShownMethods(line) == SelectSeq(line, IsMethodName)

\* The position of the overflow count that follows a method name of the
\* line, directly or as the next part of the line; 0 when there is none.
MethodsOverflowAt(line) ==
    LET direct == {k \in 1..Len(line) :
                      /\ IsMethodName(line[k]) /\ k + 2 <= Len(line)
                      /\ line[k + 1] = " (+"}
        parted == {k \in 1..Len(line) :
                      /\ IsMethodName(line[k]) /\ k + 3 <= Len(line)
                      /\ line[k + 1] = " " /\ line[k + 2] = "(+"}
    IN  IF direct # {} THEN (CHOOSE k \in direct : TRUE) + 2
        ELSE IF parted # {} THEN (CHOOSE k \in parted : TRUE) + 3
        ELSE 0

MethodsOverflow(line) ==
    IF MethodsOverflowAt(line) = 0 THEN "none"
    ELSE line[MethodsOverflowAt(line)]

\* The formatter's fixed limit on the member names of a line.
MethodLimit(lang) == IF lang = "ts" THEN 4 ELSE 5

\* C11: for a type with n method members and the formatter's limit k, the
\* rendered line shows the first min(n, k) method names in order and an
\* overflow count equal to n - k exactly when n > k; no overflow marker when
\* n <= k.
C11_MethodsCappedWithOverflow ==
    r_pc = "done" =>
        LET methods == MethodsOf(r_lang, r_type)
            k == MethodLimit(r_lang)
        IN  /\ ShownMethods(r_line) = Prefix(methods, k)
            /\ MethodsOverflow(r_line) =
                  (IF Len(methods) > k THEN ToString(Len(methods) - k)
                   ELSE "none")

\* Six methods behind a property were rendered by the C# formatter: five
\* names and an overflow of 1.
C11_Witness ==
    /\ r_pc = "done"
    /\ r_lang = "cs"
    /\ Len(r_type.members) = 7
    /\ r_type.members[1].kind = "property"
    /\ Len(ShownMethods(r_line)) = 5
    /\ MethodsOverflow(r_line) = "1"

\* ---- Properties of format_output and of the run's text ------------------

\* The file model contributes a visible type to the summary: a type (C#), an
\* exported type (TypeScript), a class or a listed function (Python).
ContributesTypes(lang, f) ==
    IF lang = "ts" THEN \E k \in 1..Len(f.types) : f.exported[k]
    ELSE f.types # <<>> \/ f.functions # <<>>

\* C12: a file whose model contributes no visible type leaves no trace in
\* the rendered text, neither a line naming it nor a group line that is there
\* only because of it: the text is the one rendered without the file.
C12_TypelessFilesLeaveNoOutput ==
    w_pc = "done" =>
        format_output(w_lang, w_files, w_frameworks)
            = format_output(w_lang,
                            SelectSeq(w_files,
                                      LAMBDA f : ContributesTypes(w_lang, f)),
                            w_frameworks)

\* The files the walk aggregates, in ascending order of their paths.
CanonicalFiles ==
    LET paths == SelectSeq(PathsAscending(w_lang),
                           LAMBDA p : p \in AggregatedPaths)
    IN  [k \in 1..Len(paths) |-> FileModel(w_lang, paths[k], w_depth)]

\* The line is the group line of the key.
IsGroupLine(line, key) == <<line>> = GroupLines(w_lang, key)

\* The line names the file: the type line of a C# file, the header line of a
\* Python or TypeScript file.
NamesFile(line, filename) ==
    IF w_lang = "cs"
    THEN Len(line) >= 5 /\ line[1] = "  - " /\ line[3] = filename
    ELSE Len(line) = 6 /\ line[2] = "- " /\ line[4] = filename

\* Where the block of a group begins in the text: at its group line, or
\* right after the header for the files at the root (Python, TypeScript).
GroupStart(key) ==
    IF \E k \in 1..Len(w_output) : IsGroupLine(w_output[k], key)
    THEN CHOOSE k \in 1..Len(w_output) : IsGroupLine(w_output[k], key)
    ELSE 0

\* The first line at or after the group's start that names the file; 0 when
\* there is none.
FilePos(f) ==
    LET hits == {k \in 1..Len(w_output) :
                    /\ k > GroupStart(GroupKey(w_lang, f))
                    /\ NamesFile(w_output[k], Text(FileName(f.path)))}
    IN  IF hits = {} THEN 0
        ELSE CHOOSE k \in hits : \A j \in hits : k <= j

RankIn(order, x) ==
    IF \E k \in 1..Len(order) : order[k] = x
    THEN CHOOSE k \in 1..Len(order) : order[k] = x
    ELSE 0

\* C13: the text is determined by the set of aggregated file models alone
\* (the same for every walk order, and for every rendering of the same
\* aggregate), its groups are in ascending key order and the files of a
\* group in ascending path order; the aggregate is what the walk built.
C13_RenderDeterministicAndSorted ==
    w_pc = "done" =>
        /\ w_output = format_output(w_lang, CanonicalFiles, w_frameworks)
                      \o <<StatsLine(w_lang, w_counts)>>
        /\ \A k \in 1..Len(w_files) :
              w_files[k] = FileModel(w_lang, w_files[k].path, w_depth)
        /\ \A i, j \in 1..Len(w_files) :
              LET f == w_files[i]
                  g == w_files[j]
              IN  /\ (/\ RankIn(GroupKeysAscending(w_lang),
                                GroupKey(w_lang, f))
                            < RankIn(GroupKeysAscending(w_lang),
                                     GroupKey(w_lang, g))
                      /\ GroupStart(GroupKey(w_lang, f)) > 0)
                         => GroupStart(GroupKey(w_lang, f))
                               < GroupStart(GroupKey(w_lang, g))
                  /\ (/\ GroupKey(w_lang, f) = GroupKey(w_lang, g)
                      /\ FileName(f.path) # FileName(g.path)
                      /\ RankIn(PathsAscending(w_lang), f.path)
                            < RankIn(PathsAscending(w_lang), g.path)
                      /\ ContributesTypes(w_lang, f)
                      /\ ContributesTypes(w_lang, g))
                         => /\ 0 < FilePos(f)
                            /\ FilePos(f) < FilePos(g)

\* A finished Python walk that aggregated pkg/n.py, then gen/e.py, then
\* pkg/b.py: the text lists gen/ before pkg/ and b.py before n.py.
C13_Witness ==
    /\ w_pc = "done"
    /\ w_lang = "py"
    /\ Len(w_files) = 3
    /\ w_files[1].path = <<Name("pkg"), <<"n", ".py">>>>
    /\ w_files[2].path = <<Name("gen"), <<"e", ".py">>>>
    /\ w_files[3].path = <<Name("pkg"), <<"b", ".py">>>>
    /\ GroupStart("gen") < GroupStart("pkg")
    /\ 0 < FilePos(w_files[3])
    /\ FilePos(w_files[3]) < FilePos(w_files[1])

\* C14 (as stated): the run fails as a whole only when the root does not
\* exist, and then before any file is extracted; with an existing root no
\* failure on a single file ends the walk.
C14_OnlyMissingRootFails ==
    w_pc \in {"failed", "crashed"} => ~w_root /\ w_parsed = {}

\* The per-file extractor signals Skip for the file: its text does not decode
\* (Python, TypeScript) or is not valid Python.
SignalsSkip(lang, path) ==
    \/ lang # "cs" /\ ~DecodesAsUtf8(Stem(path))
    \/ lang = "py" /\ ~ParsesAsPython(Stem(path))

RECURSIVE TypesIn(_)
TypesIn(files) ==
    IF files = <<>> THEN 0 ELSE Len(Head(files).types) + TypesIn(Tail(files))

RECURSIVE MembersIn(_, _)
MembersIn(lang, files) ==
    IF files = <<>> THEN 0
    ELSE MemberCount(lang, Head(files).types) + MembersIn(lang, Tail(files))

\* C15: a file for which the extractor signals Skip adds nothing to the
\* aggregate, the imports or the counts, and does not end the walk: the only
\* walk that stops early met a file whose read raised; a finished walk has
\* aggregated every other file it was to extract and ends its text with the
\* statistics line counting the files that were not skipped.
C15_SkipAddsNothingAndWalkContinues ==
    /\ \A p \in PathsOf(w_files) : ~SignalsSkip(w_lang, p)
    /\ w_imports = ImportsOfPaths(PathsOf(w_files))
    /\ w_counts = [files |-> Len(w_files), types |-> TypesIn(w_files),
                   members |-> MembersIn(w_lang, w_files)]
    /\ w_pc = "crashed" => \E p \in w_parsed : ReadRaises(p)
    /\ w_pc = "done" =>
          /\ PathsOf(w_files)
                = {p \in w_parsed : ~SignalsSkip(w_lang, p)}
          /\ \A p \in w_tree :
                p \notin w_parsed =>
                    \/ HasOffendingSegment(p)
                    \/ (w_lang = "ts" /\ NamedAsDeclarationFile(p))
          /\ w_output # <<>>
          /\ w_output[Len(w_output)]
                = StatsLine(w_lang,
                            [files |-> Cardinality(
                                 {p \in w_parsed : ~SignalsSkip(w_lang, p)}),
                             types |-> TypesIn(w_files),
                             members |-> MembersIn(w_lang, w_files)])

\* A finished Python walk over a file that does not decode, a file that does
\* not parse and a sound file: one file in the aggregate and in the
\* statistics line.
C15_Witness ==
    /\ w_pc = "done"
    /\ w_lang = "py"
    /\ w_tree = {<<<<"bad", ".py">>>>, <<Name("pkg"), <<"syn", ".py">>>>,
                 <<<<"a", ".py">>>>}
    /\ w_parsed = w_tree
    /\ Len(w_files) = 1
    /\ w_output[Len(w_output)][2] = "1"

\* C16: a run on an existing root that holds no matching source file ends
\* with no file and no type in the aggregate, and its text is the title line
\* followed by the statistics line with every count 0.
C16_EmptyRootTitleAndZeroStats ==
    (w_pc = "done" /\ \A k \in 1..Len(Patterns(w_lang)) :
                          PendingFor(w_tree, w_lang, k) = {}) =>
        /\ w_files = <<>>
        /\ w_counts = [files |-> 0, types |-> 0, members |-> 0]
        /\ Len(w_output) = 2
        /\ w_output[1][1] \in {"### C#: ", "### Python: ", "### TypeScript: "}
        /\ w_output[2][1] \in {"<!-- C#: ", "<!-- Python: ",
                               "<!-- TypeScript: "}
        /\ \A k \in {2, 4, 6} : k <= Len(w_output[2]) - 1 =>
                                    w_output[2][k] = "0"

\* A finished C# run on an existing, empty root.
C16_Witness ==
    /\ w_pc = "done"
    /\ w_root
    /\ w_tree = {}
    /\ w_lang = "cs"
    /\ w_output = << <<"### C#: ", "root", "/">>,
                     <<"<!-- C#: ", "0", " files, ", "0", " types, ", "0",
                       " members -->">> >>

\* ---- Properties of the document patcher ----------------------------------

NonBlank(s) == SelectSeq(s, LAMBDA piece : piece # NL)

Occurrences(s, piece) == Cardinality({k \in 1..Len(s) : s[k] = piece})

\* The text holds the marked section at offset i.
HoldsBlockAt(s, i) ==
    Slice(s, i, i + Len(marked_section(p_map))) = marked_section(p_map)

\* C17 (as stated): an update of a document that holds both markers leaves
\* the map text, unmodified, between the START and the END marker, and the
\* text before the START marker and after the END marker as it was; an
\* update of any other document inserts the marked section at the end of the
\* section of the named heading, or at the end of the document when the
\* heading is absent, and keeps the text that was there.
C17_UpdateReplacesBetweenMarkers ==
    (p_log # <<>> /\ Last(p_log) = "update") =>
        LET start_was == find(p_prev, <<START_MARKER>>, 0)
            end_was == find(p_prev, <<END_MARKER>>, 0)
            start_is == find(p_doc, <<START_MARKER>>, 0)
            end_is == find(p_doc, <<END_MARKER>>, 0)
            heading == find(p_prev, DEFAULT_INSERT_AFTER, 0)
            next == find(p_prev, <<NL, "## ">>,
                         heading + Len(DEFAULT_INSERT_AFTER))
            tail == IF heading = -1 \/ next = -1 THEN <<>>
                    ELSE Slice(p_prev, next, Len(p_prev))
        IN  IF start_was # -1 /\ end_was # -1
            THEN /\ start_is # -1 /\ start_is < end_is
                 /\ Slice(p_doc, start_is + 1, end_is)
                       = <<NL>> \o p_map \o <<NL>>
                 /\ Slice(p_doc, 0, start_is) = Slice(p_prev, 0, start_was)
                 /\ Slice(p_doc, end_is + 1, Len(p_doc))
                       = Slice(p_prev, end_was + 1, Len(p_prev))
            ELSE \E i \in 0..Len(p_doc) :
                    /\ HoldsBlockAt(p_doc, i)
                    /\ Slice(p_doc, i + Len(marked_section(p_map)), Len(p_doc))
                          = tail
                    /\ NonBlank(Slice(p_doc, 0, i) \o tail) = NonBlank(p_prev)

\* The text holds neither marker.
NoMarkers(s) == START_MARKER \notin Range(s) /\ END_MARKER \notin Range(s)

\* C18: starting from a document without markers, after one or more updates
\* with the same map text and heading the document is the document after the
\* first update, and holds the START marker once and, after it, the END
\* marker once.
C18_UpdateIdempotent ==
    (/\ NoMarkers(p_init)
     /\ p_log # <<>>
     /\ \A k \in 1..Len(p_log) : p_log[k] = "update") =>
        /\ p_doc = p_first
        /\ Occurrences(p_doc, START_MARKER) = 1
        /\ Occurrences(p_doc, END_MARKER) = 1
        /\ find(p_doc, <<START_MARKER>>, 0) < find(p_doc, <<END_MARKER>>, 0)

\* Two updates of a document that held the heading, a following section and
\* no marker.
C18_Witness ==
    /\ p_init = <<"## ", "Project Context", NL, "## ">>
    /\ p_log = <<"update", "update">>
    /\ p_doc = p_first
    /\ p_doc # p_init

\* ---- Properties of the base lists -----------------------------------------

\* C20 (as stated): no entry of a constructed type's bases holds
\* generic-parameter text: no '<', no '>' and no piece of a generic argument
\* list.
C20_BasesHoldNoGenericText ==
    g_pc = "done" =>
        \A k \in 1..Len(g_bases) :
            /\ "<" \notin Range(g_bases[k])
            /\ ">" \notin Range(g_bases[k])
            /\ "," \notin Range(g_bases[k])
            /\ \A n \in 1..(MaxArgs + 1) : ArgName(n) \notin Range(g_bases[k])

\* ---- Accessors and constructors -------------------------------------------

\* The declaration is an accessor or a constructor of the enclosing type:
\* a C# method named like the type or get, set, add, remove; a TypeScript
\* `constructor`, accessor declaration or method named get, set, add,
\* remove; the Python `__init__`.
IsAccessorOrConstructor(lang, decl, d) ==
    IF lang = "cs"
    THEN /\ d.kind = "method"
         /\ d.name \in {decl.name, "get", "set", "add", "remove"}
    ELSE IF lang = "ts"
    THEN \/ d.name \in {"constructor", "get", "set", "add", "remove"}
         \/ d.accessor # ""
    ELSE d.kind = "def" /\ d.name = PyInitName

\* C19 (as stated): under `methods` and `full` no member of a constructed
\* type comes from an accessor or from a constructor of the enclosing type,
\* in every front end.
C19_NoAccessorOrConstructorMember ==
    \A depth \in x_ran \ {"classes"} :
        \A k \in 1..Len(x_src[depth]) :
            ~IsAccessorOrConstructor(x_lang, x_decl,
                                     x_decl.body[x_src[depth][k]])


\* ---- Nested declarations --------------------------------------------------

\* The opening minus the closing delimiters among the offsets from..to-1.
BraceDepth(content, from, to) ==
    Cardinality({p \in from..(to - 1) : At(content, p) = "{"})
    - Cardinality({p \in from..(to - 1) : At(content, p) = "}"})

\* The heads of the types whose body holds offset j: the body is still open
\* at every offset after its opening delimiter up to j.
EnclosingHeads(content, j) ==
    {i \in 0..(j - 1) :
        /\ At(content, i) = "class"
        /\ \A p \in (i + 2)..j : BraceDepth(content, i, p) >= 1}

\* The types of the file model that hold the member at offset j.
RecordedIn(j) ==
    {k \in 1..Len(n_types) : j \in Range(n_types[k].members)}

\* C21 (as stated): every member occurrence of a file is recorded in the
\* member list of exactly one type of the file's model, the innermost type
\* that encloses it: a member of a nested type is not also a member of the
\* enclosing type, and a member after a type's closing delimiter is not
\* recorded in that type (a member outside every type is recorded in none).
C21_MemberInExactlyOneType ==
    n_pc = "done" =>
        LET content == NestText(n_file)
        IN  \A j \in 0..(Len(content) - 1) :
                At(content, j) = "m()" =>
                    LET heads == EnclosingHeads(content, j)
                    IN  IF heads = {}
                        THEN RecordedIn(j) = {}
                        ELSE /\ Cardinality(RecordedIn(j)) = 1
                             /\ \A k \in RecordedIn(j) :
                                    /\ n_types[k].type \in heads
                                    /\ \A i \in heads : i <= n_types[k].type

\* ---- Depth policy `full` --------------------------------------------------

\* The member patterns of the front end recognize item i of the body: the
\* C# METHOD_PATTERN / PROPERTY_PATTERN match its head, the TypeScript
\* METHOD_PATTERN matches every method head, the Python parse_class looks at
\* the function definitions of the body.
RecognizedMember(lang, decl, i) ==
    IF lang = "cs" THEN CsHeadMatches(decl.body[i])
    ELSE IF lang = "ts" THEN TRUE
    ELSE decl.body[i].kind = "def"

\* C22 (as stated): under `full` nothing that the member patterns recognize
\* in a class body is filtered out, and an enum declared with a non-empty
\* body yields a type whose member list is non-empty.
C22_FullKeepsEverything ==
    "full" \in x_ran =>
        /\ x_decl.kind = "class" =>
               \A i \in 1..Len(x_decl.body) :
                   RecognizedMember(x_lang, x_decl, i)
                       => i \in Range(x_src["full"])
        /\ (x_decl.kind = "enum" /\ x_decl.body # <<>>)
               => x_type["full"].members # <<>>

====
